---- MODULE Spec2Model ----
(***************************************************************************)
(* A model of termulizer: the capture -> analysis -> render pipeline of    *)
(* runVisualizer (src/main.go), the Bubble Tea UI loop (src/tui.go), the   *)
(* spectral analyzer (src/audio_processor.go) and the Strategy B beam      *)
(* renderer (src/beam_renderer.go, src/unnamed/part_000).                  *)
(***************************************************************************)
EXTENDS Integers, Sequences, FiniteSets, Bags, TLC

(***************************************************************************)
(* Bounds of the model.                                                    *)
(***************************************************************************)
\* Number of sample blocks the capture collaborator reads in one run.
MaxBlocks == 3
\* Capacity of audioChan; the program makes it with capacity 8.
AudioChanCap == 2
\* Capacity of tuiChan; the program makes it with capacity 10.
TuiChanCap == 2

VARIABLES
    \* capture goroutine (StartAudioCapture)
    capPc,        \* "read" | "send" | "exited"
    capBuf,       \* id of the block read and not yet sent (0: none)
    produced,     \* number of blocks read so far; block ids are 1..produced
    captureDone,  \* the capture's done channel is closed (stopFunc was called)
    audioChan,    \* buffered content of audioChan, oldest first
    audioClosed,  \* close(audioChan) has happened
    \* analysis goroutine (runVisualizer)
    anPc,         \* "recv" | "send" | "exited"
    anMsg,        \* id of the AudioMessage being sent (0: none)
    tuiChan,      \* buffered content of tuiChan, oldest first
    tuiClosed,    \* number of close(tuiChan) calls so far
    quitAudio,    \* close(quitAudio) has happened
    \* Bubble Tea program (tui.go)
    uiPc,         \* "running" | "quit" | "panicked"
    waitOut,      \* waitForAudio commands blocked on <-ch
    tickOut,      \* tick timers running
    inbox,        \* bag of messages commands have produced, not yet handled
    m,            \* the model struct
    view,         \* outcome of the last View call
    \* runVisualizer's own goroutine
    mainPc,       \* "select" | "sigwait" | "closing" | "wgwait" | "drain"
                  \* | "stopping" | "returning" | "exited"
    drainCount,   \* messages the shutdown drain loop has taken
    \* one ProcessBuffer call (audio_processor.go)
    pbPc,         \* "idle" | "start" | "waitLeft" | "waitRight" | "bands"
                  \* | "post" | "chaos" | "done" | "crashed"
    block,        \* len(buffer)
    fftTask,      \* the two transform goroutines: "L", "R" -> "none" | "start"
                  \* | "copied" | "transformed" | "sent"
    realOwner,    \* whose samples ap.fft's scratch arrays hold: "none", "L", "R"
    coeffs,       \* "L", "R" -> "none" | "own" | "corrupt"
    bandEnergies, \* bandEnergies[1..i], in units of 1/100000
    totalEnergy,  \* totalEnergy, in units of 1/100000
    result,       \* the AudioMessage returned, or NoResult
    \* one RenderPlasmaBeams call (beam_renderer.go)
    rPc,          \* "idle" | "start" | "spawn" | "wait" | "return" | "done"
    spawned,      \* band goroutines started so far
    wg,           \* the WaitGroup counter
    gridMu,       \* holder of gridMu (0: unlocked)
    smoothing,    \* br.smoothing, in units of 1/2000
    rBands,       \* the bands argument, in units of 1/2000
    rChaos,       \* the chaosLevel argument, in units of 1/2000
    chaosSmooth,  \* br.chaosSmooth, in units of 1/2000
    bPc,          \* band task -> "unborn" | "run" | "locked" | "done"
    bCell,        \* band task -> the cell (row-major) its loops have reached
    bLocal,       \* band task -> intensity, currentIntensity of its update
    intensityGrid, \* intensityGrid[y][x], in units of 1/2000
    colorGrid,    \* colorGrid[y][x]
    pooled,       \* the grids are in the pools (not checked out)
    frame,        \* the string gridToStringHalfBlock returned, or NoFrame
    \* one call of a pure function of the colour and chaos helpers
    fnPc,         \* "idle" | "call" | "done"
    fnIn,         \* the function called and its arguments
    fnOut,        \* what the call returned
    \* render ticks one after the other (smoothed state only)
    sr,           \* the StrandRenderer: smoothedEnergies, chaosSmooth
    ticks,        \* render calls made so far
    \* the style cache of the PerformanceCache
    styleCache,   \* key -> the cached style; a key absent from it maps to NoStyle
    styleMu,      \* sync.RWMutex: the callers holding RLock, the caller holding Lock
    sPc,          \* caller -> its position in GetStyle / GetStyleFGBG
    sCall,        \* caller -> the call it is in: fn, fg, bg
    sOk,          \* caller -> its local ok
    sCalls,       \* caller -> calls it has started
    constructed,  \* key -> number of styles constructed and inserted for it
    \* the grid pools of the PerformanceCache
    pools,        \* gridPool, colorPool, intensityPool: the slice each one holds
    held,         \* the three slices the caller of GetGrids holds
    gPc,          \* "idle", "held" or "panic"
    req,          \* height and width of the last GetGrids
    allocated,    \* whether the last GetGrids called make
    dropped,      \* whether a pool has lost its item since construction
    served        \* the sizes GetGrids has served

pipeVars == <<capPc, capBuf, produced, captureDone, audioChan, audioClosed,
              anPc, anMsg, tuiChan, tuiClosed, quitAudio>>
uiVars == <<uiPc, waitOut, tickOut, inbox, m, view>>
mainVars == <<mainPc, drainCount>>
procVars == <<pbPc, block, fftTask, realOwner, coeffs, bandEnergies,
              totalEnergy, result>>
beamVars == <<rPc, smoothing, rBands, rChaos, chaosSmooth, spawned, wg, gridMu, bPc, bCell, bLocal,
              intensityGrid, colorGrid, pooled, frame>>
fnVars == <<fnPc, fnIn, fnOut>>
smoothVars == <<sr, ticks>>
\* Variables outside the pipeline, the analyzer and the renderer.
styleVars == <<styleCache, styleMu, sPc, sCall, sOk, sCalls, constructed>>
poolVars == <<pools, held, gPc, req, allocated, dropped, served>>
cacheVars == <<styleVars, poolVars>>
extVars == <<fnVars, smoothVars, cacheVars>>
\* Variables of the analyzer and renderer internals and of the helpers.
otherVars == <<procVars, beamVars, extVars>>
\* What a helper call leaves alone.
fnRest == <<pipeVars, uiVars, mainVars, procVars, beamVars, smoothVars, cacheVars>>
styleRest == <<pipeVars, uiVars, mainVars, procVars, beamVars, fnVars, smoothVars, poolVars>>
poolRest == <<pipeVars, uiVars, mainVars, procVars, beamVars, fnVars, smoothVars, styleVars>>
vars == <<pipeVars, uiVars, mainVars, otherVars>>

(***************************************************************************)
(* Text: a Go string is the sequence of its bytes.                         *)
(***************************************************************************)
\* The value standing for a run-time panic of the operation that returns it.
Panic == <<"PANIC">>

Text(n) == [i \in 1..n |-> "x"]

\* strings.Repeat(s, count): panics on a negative count.
Repeat(ch, count) == IF count < 0 THEN Panic ELSE [i \in 1..count |-> ch]

\* s[:hi]: panics unless 0 <= hi <= len(s).
SliceTo(s, hi) == IF hi < 0 \/ hi > Len(s) THEN Panic ELSE SubSeq(s, 1, hi)

truncateString(s, maxLen) ==
    IF Len(s) <= maxLen THEN s
    ELSE IF SliceTo(s, maxLen - 3) = Panic THEN Panic
         ELSE SliceTo(s, maxLen - 3) \o <<".", ".", ".">>

\* ArtistName "Unknown Artist", SongName "Listening...".
DefaultMetadata == [ArtistName |-> Text(14), SongName |-> Text(12)]

\* The artist line, the track line and the separator, or Panic.
RenderMetadata(metadata, width, height) ==
    LET artist == IF metadata.ArtistName # <<>>
                  THEN truncateString(metadata.ArtistName, width - 15)
                  ELSE <<>>
        song == IF metadata.SongName # <<>>
                THEN truncateString(metadata.SongName, width - 15)
                ELSE <<>>
        separator == Repeat("=", width - 2)
    IN  IF artist = Panic \/ song = Panic \/ separator = Panic THEN Panic
        ELSE <<artist, song, separator>>

\* GetGrids ends in grid[:height] on a slice of at least max(height, 0) rows.
GetGridsPanics(height, width) == height < 0

\* int(float64(h) * 0.3) for a height h >= 0.
MetadataHeight(h) == (3 * h) \div 10

\* model.View: "placeholder", "frame", or "panic" when a call it makes panics.
View(mm) ==
    IF ~mm.ready \/ mm.width = 0 THEN "placeholder"
    ELSE LET metadataHeight == MetadataHeight(mm.height)
             waveHeight == mm.height - metadataHeight - 2
         IN  IF RenderMetadata(mm.metadata, mm.width, metadataHeight) = Panic
             THEN "panic"
             ELSE IF GetGridsPanics(waveHeight * 2, mm.width) THEN "panic"
             ELSE "frame"

(***************************************************************************)
(* Channels.                                                               *)
(***************************************************************************)
\* select { case ch <- x: default: }: the send happens only if there is room.
SendOrSkip(ch, cap, x) == IF Len(ch) < cap THEN Append(ch, x) ELSE ch

\* A receive from ch can proceed: a value is buffered or ch is closed.
RecvReady(ch, closed) == ch # <<>> \/ closed

\* The process has not exited: its goroutines can still run.
Alive == mainPc # "exited"

(***************************************************************************)
(* Capture goroutine: StartAudioCapture's reader loop.                     *)
(***************************************************************************)
\* default: io.ReadFull succeeds and the bytes become one block of samples.
CaptureRead ==
    /\ Alive /\ capPc = "read" /\ produced < MaxBlocks
    /\ produced' = produced + 1
    /\ capBuf' = produced + 1
    /\ capPc' = "send"
    /\ UNCHANGED <<captureDone, audioChan, audioClosed, anPc, anMsg, tuiChan,
                   tuiClosed, quitAudio, uiVars, mainVars, otherVars>>

\* select { case audioChan <- samples: default: /* Channel full, skip */ }
CaptureSend ==
    /\ Alive /\ capPc = "send"
    /\ audioChan' = SendOrSkip(audioChan, AudioChanCap, capBuf)
    /\ capBuf' = 0
    /\ capPc' = "read"
    /\ UNCHANGED <<produced, captureDone, audioClosed, anPc, anMsg, tuiChan,
                   tuiClosed, quitAudio, uiVars, mainVars, otherVars>>

\* io.ReadFull fails (parec ended): return; the deferred close(audioChan) runs.
CaptureReadError ==
    /\ Alive /\ capPc = "read"
    /\ capPc' = "exited"
    /\ audioClosed' = TRUE
    /\ UNCHANGED <<capBuf, produced, captureDone, audioChan, anPc, anMsg,
                   tuiChan, tuiClosed, quitAudio, uiVars, mainVars, otherVars>>

\* case <-done: return; the deferred close(audioChan) runs.
CaptureStop ==
    /\ Alive /\ capPc = "read" /\ captureDone
    /\ capPc' = "exited"
    /\ audioClosed' = TRUE
    /\ UNCHANGED <<capBuf, produced, captureDone, audioChan, anPc, anMsg,
                   tuiChan, tuiClosed, quitAudio, uiVars, mainVars, otherVars>>

(***************************************************************************)
(* Analysis goroutine of runVisualizer.                                    *)
(***************************************************************************)
\* case buffer, ok := <-audioChan with ok: ProcessBuffer(buffer), then the
\* goroutine stands at the inner select that sends the message.
AnalysisRecv ==
    /\ Alive /\ anPc = "recv" /\ audioChan # <<>>
    /\ anMsg' = Head(audioChan)
    /\ audioChan' = Tail(audioChan)
    /\ anPc' = "send"
    /\ UNCHANGED <<capPc, capBuf, produced, captureDone, audioClosed, tuiChan,
                   tuiClosed, quitAudio, uiVars, mainVars, otherVars>>

\* A return that leaves the channel as it is.
NoClose(n) == n
\* close(tuiChan) in the deferred function of the goroutine.
CloseTui(n) == n + 1

\* The goroutine returns: the deferred function closes tuiChan.
AnalysisExit ==
    /\ anPc' = "exited"
    /\ anMsg' = 0
    /\ tuiClosed' = CloseTui(tuiClosed)
    /\ UNCHANGED <<capPc, capBuf, produced, captureDone, audioChan, audioClosed,
                   tuiChan, quitAudio, uiVars, mainVars, otherVars>>

\* case buffer, ok := <-audioChan with !ok: return.
AnalysisRecvClosed ==
    /\ Alive /\ anPc = "recv" /\ audioChan = <<>> /\ audioClosed
    /\ AnalysisExit

\* A quit channel whose closure is never observed.
QuitIgnored == FALSE
\* case <-quitAudio: is ready once main has closed quitAudio.
QuitReady == quitAudio

\* case <-quitAudio: return (outer select).
AnalysisRecvQuit ==
    /\ Alive /\ anPc = "recv" /\ QuitReady
    /\ AnalysisExit

\* The send case of the inner select can proceed: tuiChan has room.
TuiSendReady == Len(tuiChan) < TuiChanCap

\* case tuiChan <- msg: (inner select), back to the top of the loop.
AnalysisSend ==
    /\ Alive /\ anPc = "send" /\ TuiSendReady
    /\ tuiChan' = Append(tuiChan, anMsg)
    /\ anMsg' = 0
    /\ anPc' = "recv"
    /\ UNCHANGED <<capPc, capBuf, produced, captureDone, audioChan, audioClosed,
                   tuiClosed, quitAudio, uiVars, mainVars, otherVars>>

\* case <-quitAudio: return (inner select): leaves the inner function only,
\* the message is dropped and the loop goes back to the outer select.
AnalysisSendQuit ==
    /\ Alive /\ anPc = "send" /\ QuitReady
    /\ anMsg' = 0
    /\ anPc' = "recv"
    /\ UNCHANGED <<capPc, capBuf, produced, captureDone, audioChan, audioClosed,
                   tuiChan, tuiClosed, quitAudio, uiVars, mainVars, otherVars>>

\* The send step of the analysis loop: either case of the inner select.
AnalysisSendStep == AnalysisSend \/ AnalysisSendQuit

\* ProcessBuffer panics in the analysis goroutine itself: the deferred
\* recover of the inner function takes the panic, nothing is sent and the
\* loop goes back to the outer select.
AnalysisRecovered ==
    /\ Alive /\ anPc = "send"
    /\ anMsg' = 0
    /\ anPc' = "recv"
    /\ UNCHANGED <<capPc, capBuf, produced, captureDone, audioChan, audioClosed,
                   tuiChan, tuiClosed, quitAudio, uiVars, mainVars, otherVars>>

(***************************************************************************)
(* The Bubble Tea program: commands, the event loop, Update and View.      *)
(***************************************************************************)
\* Window sizes the terminal reports in this model: <<width, height>>.
WindowSizes == {<<80, 24>>, <<17, 24>>, <<80, 1>>}

Msg(kind, id) == [kind |-> kind, id |-> id]

One(msg) == SetToBag({msg})

\* The event loop after Update returned the model mm: the renderer is given
\* mm.View(); a panic in it ends the program.
EventLoopRender(mm) ==
    /\ m' = mm
    /\ view' = View(mm)
    /\ uiPc' = IF View(mm) = "panic" THEN "panicked" ELSE "running"

\* waitForAudio's function receives from the channel: msg, ok := <-ch. The
\* goroutine outlives the program; its message is dropped once the program
\* has ended.
WaitForAudioRecv ==
    /\ Alive /\ waitOut > 0 /\ RecvReady(tuiChan, tuiClosed > 0)
    /\ waitOut' = waitOut - 1
    /\ LET produce == IF tuiChan # <<>> THEN Msg("audio", Head(tuiChan))
                      ELSE Msg("closed", 0)   \* return tea.Quit
       IN  inbox' = IF uiPc = "running" THEN inbox (+) One(produce) ELSE inbox
    /\ tuiChan' = IF tuiChan # <<>> THEN Tail(tuiChan) ELSE tuiChan
    /\ UNCHANGED <<capPc, capBuf, produced, captureDone, audioChan, audioClosed,
                   anPc, anMsg, tuiClosed, quitAudio, uiPc, tickOut, m, view,
                   mainVars, otherVars>>

\* A tick timer fires: tickMsg.
TickFire ==
    /\ Alive /\ tickOut > 0
    /\ tickOut' = tickOut - 1
    /\ inbox' = IF uiPc = "running" THEN inbox (+) One(Msg("tick", 0)) ELSE inbox
    /\ UNCHANGED <<pipeVars, uiPc, waitOut, m, view, mainVars, otherVars>>

\* A tick handler that returns tea.Batch(tickCmd(), waitForAudio(m.audioChan)).
UpdateTickAndWait ==
    /\ Alive /\ uiPc = "running" /\ BagIn(Msg("tick", 0), inbox)
    /\ inbox' = inbox (-) One(Msg("tick", 0))
    /\ tickOut' = tickOut + 1
    /\ waitOut' = waitOut + 1
    /\ EventLoopRender(m)
    /\ UNCHANGED <<pipeVars, mainVars, otherVars>>

\* case tickMsg: noiseGen.Update(1.0/60.0); return m, tickCmd()
UpdateTick ==
    /\ Alive /\ uiPc = "running" /\ BagIn(Msg("tick", 0), inbox)
    /\ inbox' = inbox (-) One(Msg("tick", 0))
    /\ tickOut' = tickOut + 1
    /\ EventLoopRender(m)
    /\ UNCHANGED <<pipeVars, waitOut, mainVars, otherVars>>

\* case audioMsg: m.bands = msg.Bands ...; return m, waitForAudio(m.audioChan)
UpdateAudio(id) ==
    /\ Alive /\ uiPc = "running" /\ BagIn(Msg("audio", id), inbox)
    /\ inbox' = inbox (-) One(Msg("audio", id))
    /\ waitOut' = waitOut + 1
    /\ EventLoopRender([m EXCEPT !.bands = id, !.metadata = DefaultMetadata])
    /\ UNCHANGED <<pipeVars, tickOut, mainVars, otherVars>>

\* The message waitForAudio returns on a closed channel is the function value
\* tea.Quit (a func() tea.Msg), not a tea.QuitMsg: the event loop passes it to
\* Update, where no case of the type switch matches: return m, nil.
UpdateClosed ==
    /\ Alive /\ uiPc = "running" /\ BagIn(Msg("closed", 0), inbox)
    /\ inbox' = inbox (-) One(Msg("closed", 0))
    /\ EventLoopRender(m)
    /\ UNCHANGED <<pipeVars, waitOut, tickOut, mainVars, otherVars>>

\* A tea.QuitMsg reaches the event loop, which returns: p.Run() ends.
EventLoopQuit ==
    /\ Alive /\ uiPc = "running" /\ BagIn(Msg("quit", 0), inbox)
    /\ inbox' = EmptyBag
    /\ uiPc' = "quit"
    /\ UNCHANGED <<pipeVars, waitOut, tickOut, m, view, mainVars, otherVars>>

\* case tea.KeyMsg "q", "ctrl+c", "esc": return m, tea.Quit; the command runs
\* and sends a tea.QuitMsg.
UpdateKeyQuit ==
    /\ Alive /\ uiPc = "running" /\ ~BagIn(Msg("quit", 0), inbox)
    /\ inbox' = inbox (+) One(Msg("quit", 0))
    /\ EventLoopRender(m)
    /\ UNCHANGED <<pipeVars, waitOut, tickOut, mainVars, otherVars>>

\* case tea.KeyMsg " ": toggle the colour scheme.
UpdateKeySpace ==
    /\ Alive /\ uiPc = "running"
    /\ EventLoopRender([m EXCEPT !.colorScheme =
            IF m.colorScheme = "original" THEN "retro" ELSE "original"])
    /\ UNCHANGED <<pipeVars, waitOut, tickOut, inbox, mainVars, otherVars>>

\* case tea.WindowSizeMsg: m.width, m.height = msg.Width, msg.Height; ready.
UpdateWindowSize(w, h) ==
    /\ Alive /\ uiPc = "running"
    /\ EventLoopRender([m EXCEPT !.width = w, !.height = h, !.ready = TRUE])
    /\ UNCHANGED <<pipeVars, waitOut, tickOut, inbox, mainVars, otherVars>>

(***************************************************************************)
(* runVisualizer after p.Run() was started: wait, then shut down.          *)
(***************************************************************************)
\* case <-sigChan: p.Quit(); runErr = <-done
MainSignal ==
    /\ mainPc = "select"
    /\ mainPc' = "sigwait"
    /\ inbox' = IF uiPc = "running" THEN inbox (+) One(Msg("quit", 0)) ELSE inbox
    /\ UNCHANGED <<pipeVars, uiPc, waitOut, tickOut, m, view, drainCount, otherVars>>

\* runErr = <-done: the program goroutine has ended.
MainDone ==
    /\ mainPc \in {"select", "sigwait"} /\ uiPc # "running"
    /\ mainPc' = "closing"
    /\ UNCHANGED <<pipeVars, uiVars, drainCount, otherVars>>

\* close(quitAudio)
MainCloseQuit ==
    /\ mainPc = "closing"
    /\ quitAudio' = TRUE
    /\ mainPc' = "wgwait"
    /\ UNCHANGED <<capPc, capBuf, produced, captureDone, audioChan, audioClosed,
                   anPc, anMsg, tuiChan, tuiClosed, uiVars, drainCount, otherVars>>

\* wg.Wait() returns when the analysis goroutine has called wg.Done().
MainWait ==
    /\ mainPc = "wgwait" /\ anPc = "exited"
    /\ mainPc' = "drain"
    /\ UNCHANGED <<pipeVars, uiVars, drainCount, otherVars>>

\* for range tuiChan { drainCount++ }: one iteration.
MainDrain ==
    /\ mainPc = "drain" /\ tuiChan # <<>>
    /\ tuiChan' = Tail(tuiChan)
    /\ drainCount' = drainCount + 1
    /\ UNCHANGED <<capPc, capBuf, produced, captureDone, audioChan, audioClosed,
                   anPc, anMsg, tuiClosed, quitAudio, uiVars, mainPc, otherVars>>

\* The range loop ends: the channel is closed and empty.
MainDrainEnd ==
    /\ mainPc = "drain" /\ tuiChan = <<>> /\ tuiClosed > 0
    /\ mainPc' = "stopping"
    /\ UNCHANGED <<pipeVars, uiVars, drainCount, otherVars>>

\* The deferred stopAudio(): close(done).
MainStopAudio ==
    /\ mainPc = "stopping"
    /\ captureDone' = TRUE
    /\ mainPc' = "returning"
    /\ UNCHANGED <<capPc, capBuf, produced, audioChan, audioClosed, anPc, anMsg,
                   tuiChan, tuiClosed, quitAudio, uiVars, drainCount, otherVars>>

\* runVisualizer and main return: the process exits.
MainExit ==
    /\ mainPc = "returning"
    /\ mainPc' = "exited"
    /\ UNCHANGED <<pipeVars, uiVars, drainCount, otherVars>>

(***************************************************************************)
(* The analyzer: one ProcessBuffer call (audio_processor.go).  Sample and  *)
(* energy values are fixed-point numbers in units of 1/100000; a float64   *)
(* that may be non-finite is a record.                                     *)
(***************************************************************************)
\* Band tasks and band entries the model keeps (program: 9).
NumBands == 3

\* sampleRate and framesPerBuffer of runVisualizer; NewAudioProcessor sizes
\* the one FFT object with framesPerBuffer.
SampleRate == 44100
FramesPerBuffer == 2048
FFTLen == FramesPerBuffer

\* 1.0, 0.1 and 0.001 of the clamp and the near-silence lift, and the 0.0001
\* of calculateChaos, in units of 1/100000.
ClampMax == 100000
LiftBelow == 10000
LiftAbove == 100
ChaosEpsilon == 10

bands == <<
    [MinFreq |-> 20, MaxFreq |-> 60], [MinFreq |-> 60, MaxFreq |-> 250],
    [MinFreq |-> 250, MaxFreq |-> 500], [MinFreq |-> 500, MaxFreq |-> 1000],
    [MinFreq |-> 1000, MaxFreq |-> 2000], [MinFreq |-> 2000, MaxFreq |-> 4000],
    [MinFreq |-> 4000, MaxFreq |-> 6000], [MinFreq |-> 6000, MaxFreq |-> 12000],
    [MinFreq |-> 12000, MaxFreq |-> 20000] >>

Fin(v) == [k |-> "fin", v |-> v]
NaN == [k |-> "nan", v |-> 0]
PosInf == [k |-> "inf", v |-> 1]
NegInf == [k |-> "inf", v |-> -1]

\* Lengths of the blocks handed to ProcessBuffer: empty, odd (mono fallback),
\* one frame of mono samples, one frame of stereo samples, odd and long.
BlockLens == {0, 3, FramesPerBuffer, 2 * FramesPerBuffer, 2 * FramesPerBuffer + 1}

\* Values the band arithmetic can leave in bandEnergy before the guard:
\* non-finite, negative, zero, below, at and above each threshold.
RawEnergies ==
    {NaN, PosInf, NegInf} \cup
    {Fin(v) : v \in {-50, 0, 3, 50, 100, 110, 9990, 10000, 50000, 100000,
                     100010, 3500000}}

Channels == {"L", "R"}
NoResult == [Bands |-> <<>>, ChaosLevel |-> -1]
ZeroMessage == [Bands |-> [i \in 1..NumBands |-> 0], ChaosLevel |-> 0]

\* len(leftChannel): half the block for stereo, the whole block for mono.
ChanLen(n) == IF n % 2 = 0 THEN n \div 2 ELSE n
\* len(coeffs) of a transform of FFTLen samples.
CoeffLen == FFTLen \div 2 + 1
\* int(freq / binWidth) with binWidth = sampleRate / len(leftChannel).
BinOf(freq, n) == (freq * n) \div SampleRate
MinBin(i, n) == BinOf(bands[i].MinFreq, n)
MaxBin(i, n) ==
    IF BinOf(bands[i].MaxFreq, n) > CoeffLen THEN CoeffLen
    ELSE BinOf(bands[i].MaxFreq, n)

\* The guard against NaN, Inf and non-positive energies.
Guard(e) == IF e.k = "fin" /\ e.v > 0 THEN e.v ELSE 0
NoClamp(x) == x
Clamp(x) == IF x > ClampMax THEN ClampMax ELSE x
Lift(x) == IF x < LiftBelow /\ x > LiftAbove THEN LiftBelow + 2 * x ELSE x
PostProcess(x) == Lift(Clamp(x))

RECURSIVE SumSeq(_)
SumSeq(s) == IF s = <<>> THEN 0 ELSE Head(s) + SumSeq(Tail(s))

\* math.Tanh(total * 10) in units of 1/100000: 1 from x = 3 on (true value
\* above 0.995), below that the Pade approximant x(27 + x^2)/(27 + 9x^2)
\* on x in hundredths.
Tanh10(total) ==
    IF total >= 30000 THEN ClampMax
    ELSE LET h == total \div 100
         IN (10 * h * (270000 + h * h)) \div ((270000 + 9 * h * h) \div 100)

\* normalized[i] = e / total, in thousandths (for an entry below 2 * total).
Normalized(e, total) ==
    IF total > ClampMax THEN e \div (total \div 1000) ELSE (e * 1000) \div total

\* A chaos value left as computed, without the final bounds.
NoSaturate(x) == x
\* math.Max(0, math.Min(1, chaos))
Saturate(x) == IF x > ClampMax THEN ClampMax ELSE IF x < 0 THEN 0 ELSE x

\* calculateChaos.  An entry of 2 * total or more (normalized >= 2) alone
\* makes variance*3 reach 3, which stands for the sum in that case.
calculateChaos(energies, total) ==
    IF total < ChaosEpsilon THEN 0
    ELSE IF \E i \in 1..Len(energies) : energies[i] >= 2 * total
    THEN Saturate(3 * ClampMax)
    ELSE LET n == Len(energies)
             diff(i) == Normalized(energies[i], total) - (1000 \div n)
             variance == SumSeq([i \in 1..n |-> diff(i) * diff(i)])
         IN Saturate((variance * 3) \div 10 + (Tanh10(total) * 4) \div 10)

\* len(buffer) == 0: the all-zero message.
PBEmpty ==
    /\ pbPc = "start" /\ block = 0
    /\ result' = ZeroMessage
    /\ pbPc' = "done"
    /\ UNCHANGED <<block, fftTask, realOwner, coeffs, bandEnergies, totalEnergy>>
    /\ UNCHANGED <<pipeVars, uiVars, mainVars, beamVars, extVars>>

\* De-interleave (or duplicate a mono block) and start both transforms.
PBSplit ==
    /\ pbPc = "start" /\ block # 0
    /\ fftTask' = [c \in Channels |-> "start"]
    /\ pbPc' = "waitLeft"
    /\ UNCHANGED <<block, realOwner, coeffs, bandEnergies, totalEnergy, result>>
    /\ UNCHANGED <<pipeVars, uiVars, mainVars, beamVars, extVars>>

\* ap.fft.Coefficients(nil, channel), first step: the length check passes and
\* copy(t.real, seq) fills the FFT object's scratch array.
FFTCopy(c) ==
    /\ pbPc \in {"waitLeft", "waitRight"}
    /\ fftTask[c] = "start" /\ ChanLen(block) = FFTLen
    /\ realOwner' = c
    /\ fftTask' = [fftTask EXCEPT ![c] = "copied"]
    /\ UNCHANGED <<pbPc, block, coeffs, bandEnergies, totalEnergy, result>>
    /\ UNCHANGED <<pipeVars, uiVars, mainVars, beamVars, extVars>>

\* The length check fails: Coefficients panics in the transform goroutine;
\* the deferred recover of ProcessBuffer runs in another goroutine, so the
\* panic ends the process.
FFTPanic(c) ==
    /\ pbPc \in {"waitLeft", "waitRight"}
    /\ fftTask[c] = "start" /\ ChanLen(block) # FFTLen
    /\ pbPc' = "crashed"
    /\ UNCHANGED <<block, fftTask, realOwner, coeffs, bandEnergies,
                   totalEnergy, result>>
    /\ UNCHANGED <<pipeVars, uiVars, mainVars, beamVars, extVars>>

\* The in-place transform of the scratch array: what it reads is the task's
\* own copy only if no other copy or transform came in between.
FFTTransform(c) ==
    /\ pbPc \in {"waitLeft", "waitRight"}
    /\ fftTask[c] = "copied"
    /\ coeffs' = [coeffs EXCEPT ![c] = IF realOwner = c THEN "own" ELSE "corrupt"]
    /\ realOwner' = c
    /\ fftTask' = [fftTask EXCEPT ![c] = "transformed"]
    /\ UNCHANGED <<pbPc, block, bandEnergies, totalEnergy, result>>
    /\ UNCHANGED <<pipeVars, uiVars, mainVars, beamVars, extVars>>

\* Read the scratch array into the coefficient slice and send the result.
FFTExtract(c) ==
    /\ pbPc \in {"waitLeft", "waitRight"}
    /\ fftTask[c] = "transformed"
    /\ coeffs' = [coeffs EXCEPT ![c] = IF realOwner = c THEN @ ELSE "corrupt"]
    /\ fftTask' = [fftTask EXCEPT ![c] = "sent"]
    /\ UNCHANGED <<pbPc, block, realOwner, bandEnergies, totalEnergy, result>>
    /\ UNCHANGED <<pipeVars, uiVars, mainVars, beamVars, extVars>>

\* leftFFT := <-leftResult
PBJoinLeft ==
    /\ pbPc = "waitLeft" /\ fftTask["L"] = "sent"
    /\ pbPc' = "waitRight"
    /\ UNCHANGED <<block, fftTask, realOwner, coeffs, bandEnergies,
                   totalEnergy, result>>
    /\ UNCHANGED <<pipeVars, uiVars, mainVars, beamVars, extVars>>

\* rightFFT := <-rightResult, then the empty-coefficients check.
PBJoinRight ==
    /\ pbPc = "waitRight" /\ fftTask["R"] = "sent"
    /\ IF CoeffLen = 0
       THEN result' = ZeroMessage /\ pbPc' = "done"
       ELSE result' = result /\ pbPc' = "bands"
    /\ UNCHANGED <<block, fftTask, realOwner, coeffs, bandEnergies, totalEnergy>>
    /\ UNCHANGED <<pipeVars, uiVars, mainVars, beamVars, extVars>>

\* One pass of the band loop; e is what the arithmetic over the bins left in
\* bandEnergy.
PBBand(e) ==
    /\ pbPc = "bands"
    /\ LET i == Len(bandEnergies) + 1
           n == ChanLen(block)
           kept == IF MaxBin(i, n) <= MinBin(i, n) THEN 0 ELSE Guard(e)
       IN /\ bandEnergies' = Append(bandEnergies, kept)
          /\ totalEnergy' = totalEnergy + kept
          /\ pbPc' = IF i = NumBands THEN "post" ELSE "bands"
    /\ UNCHANGED <<block, fftTask, realOwner, coeffs, result>>
    /\ UNCHANGED <<pipeVars, uiVars, mainVars, beamVars, extVars>>

\* The clamp and the near-silence lift over all bands.
PBPost ==
    /\ pbPc = "post"
    /\ bandEnergies' = [i \in 1..Len(bandEnergies) |-> PostProcess(bandEnergies[i])]
    /\ pbPc' = "chaos"
    /\ UNCHANGED <<block, fftTask, realOwner, coeffs, totalEnergy, result>>
    /\ UNCHANGED <<pipeVars, uiVars, mainVars, beamVars, extVars>>

\* calculateChaos and the returned message.
PBReturn ==
    /\ pbPc = "chaos"
    /\ result' = [Bands |-> bandEnergies,
                  ChaosLevel |-> calculateChaos(bandEnergies, totalEnergy)]
    /\ pbPc' = "done"
    /\ UNCHANGED <<block, fftTask, realOwner, coeffs, bandEnergies, totalEnergy>>
    /\ UNCHANGED <<pipeVars, uiVars, mainVars, beamVars, extVars>>

\* No ProcessBuffer call in progress.
ProcIdle ==
    /\ pbPc = "idle" /\ block = 0
    /\ fftTask = [c \in Channels |-> "none"] /\ realOwner = "none"
    /\ coeffs = [c \in Channels |-> "none"]
    /\ bandEnergies = <<>> /\ totalEnergy = 0 /\ result = NoResult

(***************************************************************************)
(* The renderer: one RenderPlasmaBeams call (beam_renderer.go) with its    *)
(* band goroutines.  Intensities and energies are fixed-point numbers in   *)
(* units of 1/2000.                                                        *)
(***************************************************************************)
\* Band goroutines the model runs (program: numBeams = 9).
NumBeams == 2

\* The frame asked for: width and height of RenderPlasmaBeams.
RenderSize == [width |-> 1, height |-> 1]
\* renderHeight := height * 2
RenderHeight == RenderSize.height * 2

\* 0.04, 0.05 and 1.0 of the cell update and of the empty-cell test.
WriteThreshold == 80
EmptyThreshold == 100
MaxIntensity == 2000

\* falloff * flicker of one cell, in percent: the product that leaves a band
\* of energy 1.0 at exactly 0.04, and the largest one (1.0 * 1.08).
Factors == {4, 108}
\* br.smoothing[idx] left by earlier frames.
Energies == {0, 2000}
\* What the pooled intensity grid may still hold from the frame before.
StaleIntensities == {0, 1500}

Beams == 1..NumBeams
Rows == 0..(RenderHeight - 1)
Cols == 0..(RenderSize.width - 1)
NoColor == <<>>
NoFrame == <<[kind |-> "none", fg |-> NoColor, bg |-> NoColor, len |-> 0]>>

\* An update whose two weights add up to more than 1.
Overshoot(old, new) == (old * 65 + new * 45) \div 100
\* smoothFactor 0.35: smoothing*(1 - 0.35) + band*0.35
Smooth(old, new) == (old * 65 + new * 35) \div 100

\* ApplyGradient(color, intensity) of a band, as a term.
GradientColor(t, intensity) == << <<t, intensity, 0>> >>
\* BlendColors(c1, c2, ratio) with ratio = intensity / (intensity + cur), as
\* a term.
BlendColors(c1, t, intensity, cur) == Append(c1, <<t, intensity, cur>>)

Min(a, b) == IF a < b THEN a ELSE b
Max(a, b) == IF a > b THEN a ELSE b

\* The intensity of the last write, whatever the cell held.
LastWrite(cur, intensity) == intensity

\* The sum of the two intensities, capped at 1.0.
SumCapped(cur, intensity) == Min(MaxIntensity, cur + intensity)

\* The intensity a cell update stores, from the intensity it read.
NewIntensity(cur, intensity) ==
    IF intensity > WriteThreshold
    THEN IF cur > WriteThreshold
         THEN Max(cur, Min(MaxIntensity, cur + intensity \div 2))
         ELSE intensity
    ELSE cur

\* The colour a cell update stores.
NewColor(cur, old, t, intensity) ==
    IF intensity > WriteThreshold
    THEN IF cur > WriteThreshold
         THEN BlendColors(old, t, intensity, cur)
         ELSE GradientColor(t, intensity)
    ELSE old

\* gridToStringHalfBlock: the string as the sequence of the segments written,
\* a space for an empty cell, a run of half blocks with one foreground and
\* background (style.Render wraps the run in colour codes and adds no cell),
\* and the newlines between the rows.
CellEmpty(ig, y, x, height) ==
    ig[y][x] < EmptyThreshold /\ (y + 1 >= height * 2 \/ ig[y + 1][x] < EmptyThreshold)
BgOf(cg, y, x, height) == IF y + 1 < height * 2 THEN cg[y + 1][x] ELSE NoColor

RECURSIVE RunEnd(_, _, _, _, _, _, _)
RunEnd(cg, y, x, fg, bg, width, height) ==
    IF x >= width THEN x
    ELSE IF cg[y][x] # fg \/ BgOf(cg, y, x, height) # bg THEN x
    ELSE RunEnd(cg, y, x + 1, fg, bg, width, height)

RECURSIVE RowString(_, _, _, _, _, _)
RowString(cg, ig, y, x, width, height) ==
    IF x >= width THEN <<>>
    ELSE IF CellEmpty(ig, y, x, height)
    THEN <<[kind |-> "space", fg |-> NoColor, bg |-> NoColor, len |-> 1]>>
         \o RowString(cg, ig, y, x + 1, width, height)
    ELSE LET fg == cg[y][x]
             bg == BgOf(cg, y, x, height)
             end == RunEnd(cg, y, x + 1, fg, bg, width, height)
         IN <<[kind |-> "run", fg |-> fg, bg |-> bg, len |-> end - x]>>
            \o RowString(cg, ig, y, end, width, height)

Newline == [kind |-> "newline", fg |-> NoColor, bg |-> NoColor, len |-> 0]

\* A newline after every row.
NewlineAlways(y, height) == TRUE
\* if y < (height*2)-2 { sb.WriteString("\n") }
NewlineAfter(y, height) == y < (height * 2) - 2

\* for y := 0; y < height*2; y += 2
RECURSIVE FrameFrom(_, _, _, _, _)
FrameFrom(cg, ig, y, width, height) ==
    IF y >= height * 2 THEN <<>>
    ELSE RowString(cg, ig, y, 0, width, height)
         \o (IF NewlineAfter(y, height) THEN <<Newline>> ELSE <<>>)
         \o FrameFrom(cg, ig, y + 2, width, height)

gridToStringHalfBlock(cg, ig, width, height) == FrameFrom(cg, ig, 0, width, height)

\* A lock that never makes its caller wait.
MuIgnored == TRUE
\* mu.Lock() returns only while nobody holds gridMu.
MuFree == gridMu = 0
\* A join that never waits.
WaitSkipped == TRUE
\* wg.Wait() returns only when every band goroutine has called wg.Done().
WaitDone == wg = 0

\* Smoothing update and GetGrids: the grids leave the pool and are cleared.
RStart ==
    /\ rPc = "start"
    /\ smoothing' = [t \in Beams |-> Smooth(smoothing[t], rBands[t])]
    /\ chaosSmooth' = Smooth(chaosSmooth, rChaos)
    /\ pooled' = FALSE
    /\ intensityGrid' = [y \in Rows |-> [x \in Cols |-> 0]]
    /\ colorGrid' = [y \in Rows |-> [x \in Cols |-> NoColor]]
    /\ rPc' = "spawn"
    /\ UNCHANGED <<rBands, rChaos, spawned, wg, gridMu, bPc, bCell, bLocal, frame>>
    /\ UNCHANGED <<pipeVars, uiVars, mainVars, procVars, extVars>>

\* wg.Add(1); go func(idx) ... for the next band.
RSpawn ==
    /\ rPc = "spawn"
    /\ wg' = wg + 1
    /\ spawned' = spawned + 1
    /\ bPc' = [bPc EXCEPT ![spawned + 1] = "run"]
    /\ rPc' = IF spawned + 1 = NumBeams THEN "wait" ELSE "spawn"
    /\ UNCHANGED <<smoothing, rBands, rChaos, chaosSmooth, gridMu, bCell, bLocal, intensityGrid,
                   colorGrid, pooled, frame>>
    /\ UNCHANGED <<pipeVars, uiVars, mainVars, procVars, extVars>>

CellY(k) == k \div RenderSize.width
CellX(k) == k % RenderSize.width
NumCells == RenderHeight * RenderSize.width

\* A cell the beam does not reach: x off the grid or falloff below 0.05.
BeamSkip(t) ==
    /\ bPc[t] = "run" /\ bCell[t] < NumCells
    /\ bCell' = [bCell EXCEPT ![t] = @ + 1]
    /\ UNCHANGED <<rPc, smoothing, rBands, rChaos, chaosSmooth, spawned, wg, gridMu, bPc, bLocal,
                   intensityGrid, colorGrid, pooled, frame>>
    /\ UNCHANGED <<pipeVars, uiVars, mainVars, procVars, extVars>>

\* intensity := energy * falloff * flicker; mu.Lock(); read the cell.
BeamLock(t, f) ==
    /\ bPc[t] = "run" /\ bCell[t] < NumCells
    /\ MuFree
    /\ gridMu' = t
    /\ bLocal' = [bLocal EXCEPT ![t] =
          [intensity |-> (smoothing[t] * f) \div 100,
           currentIntensity |-> intensityGrid[CellY(bCell[t])][CellX(bCell[t])]]]
    /\ bPc' = [bPc EXCEPT ![t] = "locked"]
    /\ UNCHANGED <<rPc, smoothing, rBands, rChaos, chaosSmooth, spawned, wg, bCell, intensityGrid,
                   colorGrid, pooled, frame>>
    /\ UNCHANGED <<pipeVars, uiVars, mainVars, procVars, extVars>>

\* Blend or overwrite from the intensity read; mu.Unlock().
BeamWriteUnlock(t) ==
    /\ bPc[t] = "locked"
    /\ LET y == CellY(bCell[t])
           x == CellX(bCell[t])
           i == bLocal[t].intensity
           cur == bLocal[t].currentIntensity
       IN /\ intensityGrid' = [intensityGrid EXCEPT ![y][x] = NewIntensity(cur, i)]
          /\ colorGrid' = [colorGrid EXCEPT ![y][x] = NewColor(cur, @, t, i)]
    /\ gridMu' = 0
    /\ bCell' = [bCell EXCEPT ![t] = @ + 1]
    /\ bPc' = [bPc EXCEPT ![t] = "run"]
    /\ UNCHANGED <<rPc, smoothing, rBands, rChaos, chaosSmooth, spawned, wg, bLocal, pooled, frame>>
    /\ UNCHANGED <<pipeVars, uiVars, mainVars, procVars, extVars>>

\* The band loop is over: the deferred wg.Done().
BeamDone(t) ==
    /\ bPc[t] = "run" /\ bCell[t] = NumCells
    /\ bPc' = [bPc EXCEPT ![t] = "done"]
    /\ wg' = wg - 1
    /\ UNCHANGED <<rPc, smoothing, rBands, rChaos, chaosSmooth, spawned, gridMu, bCell, bLocal,
                   intensityGrid, colorGrid, pooled, frame>>
    /\ UNCHANGED <<pipeVars, uiVars, mainVars, procVars, extVars>>

\* wg.Wait() returns and gridToStringHalfBlock reads the grids.
RStringify ==
    /\ rPc = "wait"
    /\ WaitDone
    /\ frame' = gridToStringHalfBlock(colorGrid, intensityGrid,
                                       RenderSize.width, RenderSize.height)
    /\ rPc' = "return"
    /\ UNCHANGED <<smoothing, rBands, rChaos, chaosSmooth, spawned, wg, gridMu, bPc, bCell, bLocal,
                   intensityGrid, colorGrid, pooled>>
    /\ UNCHANGED <<pipeVars, uiVars, mainVars, procVars, extVars>>

\* The deferred ReturnGrids puts the grids back into the pools.
RReturn ==
    /\ rPc = "return"
    /\ pooled' = TRUE
    /\ rPc' = "done"
    /\ UNCHANGED <<smoothing, rBands, rChaos, chaosSmooth, spawned, wg, gridMu, bPc, bCell, bLocal,
                   intensityGrid, colorGrid, frame>>
    /\ UNCHANGED <<pipeVars, uiVars, mainVars, procVars, extVars>>

\* No RenderPlasmaBeams call in progress; the pooled grids hold what the
\* frame before left, the band tasks do not exist yet.
BeamRest ==
    /\ spawned = 0 /\ wg = 0 /\ gridMu = 0
    /\ bPc = [t \in Beams |-> "unborn"]
    /\ bCell = [t \in Beams |-> 0]
    /\ bLocal = [t \in Beams |-> [intensity |-> 0, currentIntensity |-> 0]]
    /\ colorGrid = [y \in Rows |-> [x \in Cols |-> NoColor]]
    /\ pooled = TRUE /\ frame = NoFrame

BeamIdle ==
    /\ rPc = "idle" /\ BeamRest
    /\ smoothing = [t \in Beams |-> 0] /\ rBands = [t \in Beams |-> 0]
    /\ chaosSmooth = 0 /\ rChaos = 0
    /\ intensityGrid = [y \in Rows |-> [x \in Cols |-> 0]]

(***************************************************************************)
(* Calls of the pure helpers: calculateChaos (audio_processor.go) and the  *)
(* colour functions of the performance cache.  One call per behaviour: the *)
(* arguments are drawn in the initial state, the action applies the        *)
(* function.                                                               *)
(***************************************************************************)
NoCall == [fn |-> "none"]

\* Band energies handed to calculateChaos: non-negative and finite.
ChaosEnergies == {0, 3, 50, 100000, 3500000}
\* Totals handed to calculateChaos besides the sum of the energies.
ChaosTotals == {-5, 0, 9, 10}

ChaosCalls ==
    {[fn |-> "calculateChaos", energies |-> e, total |-> t] :
        e \in [1..NumBands -> ChaosEnergies],
        t \in ChaosTotals} \cup
    {[fn |-> "calculateChaos", energies |-> e, total |-> SumSeq(e)] :
        e \in [1..NumBands -> ChaosEnergies]}

\* chaosLevel := calculateChaos(energies, total)
CallCalculateChaos ==
    /\ fnPc = "call" /\ fnIn.fn = "calculateChaos"
    /\ fnOut' = [fn |-> "calculateChaos",
                 value |-> calculateChaos(fnIn.energies, fnIn.total)]
    /\ fnPc' = "done"
    /\ UNCHANGED fnIn
    /\ UNCHANGED fnRest

(***************************************************************************)
(* Render ticks one after the other, reduced to what a render call does to *)
(* the smoothed state: the first statements of RenderPlasmaBeams and of    *)
(* RenderVerticalWaves; nothing after them writes the smoothed state.      *)
(* Values are fixed-point numbers in units of 1/2000, rounded down.        *)
(***************************************************************************)
\* Render calls in one behaviour.
MaxTicks == 4

\* The samples of one call: all bands silent, a ramp over the bands, all
\* bands at 1.0; the chaos sample goes with them.
SampleKinds == {"silence", "ramp", "full"}
BandSample(c, t) ==
    IF c = "silence" THEN 0
    ELSE IF c = "ramp" THEN (MaxIntensity * t) \div (NumBeams + 1)
    ELSE MaxIntensity
ChaosSample(c) ==
    IF c = "silence" THEN 0 ELSE IF c = "ramp" THEN MaxIntensity \div 2
    ELSE MaxIntensity

\* StrandRenderer, smoothFactor 0.3: smoothed*(1 - 0.3) + band*0.3
SmoothStrand(old, new) == (old * 70 + new * 30) \div 100

\* RenderPlasmaBeams(bands, chaosLevel, ...): the smoothing update.
RenderTick(c) ==
    /\ ticks < MaxTicks
    /\ ticks' = ticks + 1
    /\ rBands' = [t \in Beams |-> BandSample(c, t)]
    /\ rChaos' = ChaosSample(c)
    /\ smoothing' = [t \in Beams |-> Smooth(smoothing[t], BandSample(c, t))]
    /\ chaosSmooth' = Smooth(chaosSmooth, ChaosSample(c))
    /\ UNCHANGED <<rPc, spawned, wg, gridMu, bPc, bCell, bLocal, intensityGrid,
                   colorGrid, pooled, frame, sr>>
    /\ UNCHANGED <<pipeVars, uiVars, mainVars, procVars, fnVars, cacheVars>>

\* RenderVerticalWaves(bands, chaosLevel, ...): the smoothing update.
StrandTick(c) ==
    /\ ticks < MaxTicks
    /\ ticks' = ticks + 1
    /\ rBands' = [t \in Beams |-> BandSample(c, t)]
    /\ rChaos' = ChaosSample(c)
    /\ sr' = [smoothedEnergies |->
                [t \in Beams |-> SmoothStrand(sr.smoothedEnergies[t], BandSample(c, t))],
              chaosSmooth |-> SmoothStrand(sr.chaosSmooth, ChaosSample(c))]
    /\ UNCHANGED <<rPc, smoothing, chaosSmooth, spawned, wg, gridMu, bPc, bCell,
                   bLocal, intensityGrid, colorGrid, pooled, frame>>
    /\ UNCHANGED <<pipeVars, uiVars, mainVars, procVars, fnVars, cacheVars>>

\* NewStrandRenderer: all smoothed values 0; no render call made.
SmoothIdle ==
    /\ sr = [smoothedEnergies |-> [t \in Beams |-> 0], chaosSmooth |-> 0]
    /\ ticks = 0

(***************************************************************************)
(* The style cache: GetStyle and GetStyleFGBG called by several goroutines *)
(* at once.  Each statement that takes or gives up styleMu is one step.    *)
(***************************************************************************)
\* Goroutines calling the style cache.
NumCallers == 2
\* Calls one goroutine makes.
MaxCalls == 2

Callers == 1..NumCallers
NoStyle == [fg |-> "none", bg |-> "none"]
NoStyleCall == [fn |-> "none", fg |-> "", bg |-> ""]

\* The calls: GetStyle(fg) and GetStyleFGBG(fg, bg).  The first and the last
\* one have the same key.
StyleCalls ==
    {[fn |-> "GetStyle", fg |-> "#F00,#00F", bg |-> ""],
     [fn |-> "GetStyle", fg |-> "#F00", bg |-> ""],
     [fn |-> "GetStyleFGBG", fg |-> "#F00", bg |-> "#00F"]}

\* key := string(fg)   and   key := string(fg) + "," + string(bg)
KeyOf(call) ==
    IF call.fn = "GetStyle" THEN call.fg ELSE call.fg \o "," \o call.bg

StyleKeys == {KeyOf(call) : call \in StyleCalls}

\* lipgloss.NewStyle().Foreground(fg)  and  ....Foreground(fg).Background(bg)
NewStyle(call) ==
    IF call.fn = "GetStyle" THEN [fg |-> call.fg, bg |-> "none"]
    ELSE [fg |-> call.fg, bg |-> call.bg]

\* style, ok := pc.styleCache[key]
Cached(key) == styleCache[key] # NoStyle
\* A lookup that finds nothing.
NotCached(key) == FALSE
\* if style, ok = pc.styleCache[key]; ok -- the lookup under the write lock
Recheck(key) == Cached(key)

\* A goroutine enters GetStyle or GetStyleFGBG.
StyleCall(c, call) ==
    /\ sPc[c] = "idle" /\ sCalls[c] < MaxCalls
    /\ sCalls' = [sCalls EXCEPT ![c] = @ + 1]
    /\ sCall' = [sCall EXCEPT ![c] = call]
    /\ sOk' = [sOk EXCEPT ![c] = FALSE]
    /\ sPc' = [sPc EXCEPT ![c] = "rlock"]
    /\ UNCHANGED <<styleCache, styleMu, constructed, styleRest>>

\* pc.styleMu.RLock(): waits while a writer holds the lock.
StyleRLock(c) ==
    /\ sPc[c] = "rlock" /\ styleMu.writer = 0
    /\ styleMu' = [styleMu EXCEPT !.readers = @ \cup {c}]
    /\ sPc' = [sPc EXCEPT ![c] = "lookup"]
    /\ UNCHANGED <<styleCache, sCall, sOk, sCalls, constructed, styleRest>>

\* style, ok := pc.styleCache[key]; pc.styleMu.RUnlock()
StyleLookup(c) ==
    /\ sPc[c] = "lookup"
    /\ sOk' = [sOk EXCEPT ![c] = Cached(KeyOf(sCall[c]))]
    /\ styleMu' = [styleMu EXCEPT !.readers = @ \ {c}]
    /\ sPc' = [sPc EXCEPT ![c] = "looked"]
    /\ UNCHANGED <<styleCache, sCall, sCalls, constructed, styleRest>>

\* if ok { return style }
StyleHit(c) ==
    /\ sPc[c] = "looked" /\ sOk[c]
    /\ sPc' = [sPc EXCEPT ![c] = "idle"]
    /\ UNCHANGED <<styleCache, styleMu, sCall, sOk, sCalls, constructed, styleRest>>

\* pc.styleMu.Lock(): waits for the readers and the writer to leave.
StyleLock(c) ==
    /\ sPc[c] = "looked" /\ ~sOk[c]
    /\ styleMu.writer = 0 /\ styleMu.readers = {}
    /\ styleMu' = [styleMu EXCEPT !.writer = c]
    /\ sPc' = [sPc EXCEPT ![c] = "locked"]
    /\ UNCHANGED <<styleCache, sCall, sOk, sCalls, constructed, styleRest>>

\* The second lookup finds the key: return style, and the deferred Unlock.
StyleRecheckHit(c) ==
    /\ sPc[c] = "locked" /\ Recheck(KeyOf(sCall[c]))
    /\ styleMu' = [styleMu EXCEPT !.writer = 0]
    /\ sPc' = [sPc EXCEPT ![c] = "idle"]
    /\ UNCHANGED <<styleCache, sCall, sOk, sCalls, constructed, styleRest>>

\* style = lipgloss.NewStyle()...; the goroutine still holds the lock.
StyleConstruct(c) ==
    /\ sPc[c] = "locked" /\ ~Recheck(KeyOf(sCall[c]))
    /\ constructed' = [constructed EXCEPT ![KeyOf(sCall[c])] = @ + 1]
    /\ sPc' = [sPc EXCEPT ![c] = "insert"]
    /\ UNCHANGED <<styleCache, styleMu, sCall, sOk, sCalls, styleRest>>

\* pc.styleCache[key] = style; return style, and the deferred Unlock.
StyleInsert(c) ==
    /\ sPc[c] = "insert"
    /\ styleCache' = [styleCache EXCEPT ![KeyOf(sCall[c])] = NewStyle(sCall[c])]
    /\ styleMu' = [styleMu EXCEPT !.writer = 0]
    /\ sPc' = [sPc EXCEPT ![c] = "idle"]
    /\ UNCHANGED <<sCall, sOk, sCalls, constructed, styleRest>>

\* NewPerformanceCache: an empty styleCache, the mutex free, no caller.
StyleIdle ==
    /\ styleCache = [k \in StyleKeys |-> NoStyle]
    /\ styleMu = [readers |-> {}, writer |-> 0]
    /\ sPc = [c \in Callers |-> "idle"]
    /\ sCall = [c \in Callers |-> NoStyleCall]
    /\ sOk = [c \in Callers |-> FALSE]
    /\ sCalls = [c \in Callers |-> 0]
    /\ constructed = [k \in StyleKeys |-> 0]

(***************************************************************************)
(* The grid pools: GetGrids and ReturnGrids called by the one goroutine    *)
(* that renders.  A slice is the sequence of its rows, a row the sequence  *)
(* of its cells; after grid[:height] the rows beyond height stay in the    *)
(* backing array, but no statement reaches them: the code reads len only.  *)
(* A sync.Pool may lose the item it stores at any time (it is emptied by   *)
(* the garbage collector); Get on an empty pool returns New().             *)
(***************************************************************************)
\* Largest height and width requested.
MaxSide == 2

Sizes == 1..MaxSide
PoolNames == {"grid", "color", "intensity"}

\* New: make([][]rune, 0); also what a pool that stores nothing stands for.
NewSlice == <<>>
NoGrids == [k \in PoolNames |-> NewSlice]
NoReq == [h |-> 0, w |-> 0, ph |-> 0, pw |-> 0]

\* make([][]rune, height): rows that are nil.
MakeRows(height) == [y \in 1..height |-> <<>>]

\* A cell left as it is.
KeepCell(old) == old
\* grid[y][x] = ' '; colorGrid[y][x] = lipgloss.Color(""); intensityGrid[y][x] = 0
ClearCell(old) == "blank"

\* The slices after the first if of GetGrids.
Outer(got, height) ==
    IF Len(got.grid) < height THEN [k \in PoolNames |-> MakeRows(height)] ELSE got

\* Row y after one pass of the loop: a new row when grid[y] is too short,
\* and the first width cells cleared.
RowAfter(o, k, y, width) ==
    LET row == IF Len(o.grid[y]) < width THEN [x \in 1..width |-> "zero"] ELSE o[k][y]
    IN  [x \in 1..Len(row) |-> IF x <= width THEN ClearCell(row[x]) ELSE row[x]]

\* colorGrid[y] or intensityGrid[y] out of range, or colorGrid[y][x] or
\* intensityGrid[y][x] out of range in a row the loop did not replace.
GridsPanic(o, height, width) ==
    \E k \in PoolNames, y \in 1..height :
        \/ Len(o[k]) < y
        \/ Len(o.grid[y]) >= width /\ Len(o[k][y]) < width

\* GetGrids(height, width) on the slices got from the pools: the three
\* slices returned, whether make was called, whether the call panicked.
GetGridsResult(got, height, width) ==
    LET o == Outer(got, height)
    IN  IF GridsPanic(o, height, width)
        THEN [panic |-> TRUE, alloc |-> FALSE, grids |-> NoGrids]
        ELSE [panic |-> FALSE,
              alloc |-> Len(got.grid) < height
                          \/ \E y \in 1..height : Len(o.grid[y]) < width,
              grids |-> [k \in PoolNames |->
                            [y \in 1..height |-> RowAfter(o, k, y, width)]]]

GetGrids(height, width) ==
    /\ gPc = "idle"
    /\ LET r == GetGridsResult(pools, height, width)
       IN  /\ gPc' = IF r.panic THEN "panic" ELSE "held"
           /\ held' = r.grids
           /\ allocated' = r.alloc
    /\ pools' = NoGrids
    /\ req' = [h |-> height, w |-> width, ph |-> req.h, pw |-> req.w]
    /\ UNCHANGED <<dropped, served, poolRest>>

\* The renderer writes the cells of the grids it holds.
DrawFrame ==
    /\ gPc = "held"
    /\ held' = [k \in PoolNames |->
                  [y \in 1..Len(held[k]) |-> [x \in 1..Len(held[k][y]) |-> "drawn"]]]
    /\ gPc' = "drawn"
    /\ UNCHANGED <<pools, req, allocated, dropped, served, poolRest>>

\* ReturnGrids(grid, colorGrid, intensityGrid); served remembers the size of
\* this checkout or keeps the earlier one it remembers.
ReturnGrids ==
    /\ gPc \in {"held", "drawn"}
    /\ pools' = held
    /\ held' = NoGrids
    /\ gPc' = "idle"
    /\ served' \in {served, <<req.h, req.w>>}
    /\ UNCHANGED <<req, allocated, dropped, poolRest>>

\* The pool loses the item it stores.
PoolDrop(k) ==
    /\ gPc = "idle" /\ pools[k] # NewSlice
    /\ pools' = [pools EXCEPT ![k] = NewSlice]
    /\ dropped' = TRUE
    /\ UNCHANGED <<held, gPc, req, allocated, served, poolRest>>

\* NewPerformanceCache: the pools store nothing.
PoolIdle ==
    /\ pools = NoGrids /\ held = NoGrids /\ gPc = "idle" /\ req = NoReq
    /\ allocated = FALSE /\ dropped = FALSE /\ served = <<0, 0>>

(***************************************************************************)
(* Hex colours.  A colour string is the sequence of its bytes; a channel   *)
(* is a uint8.  Intensities are 0 or 1 and ratios are halves, for which    *)
(* the float64 arithmetic of the code is exact after truncation.           *)
(***************************************************************************)
Digits == <<"0", "1", "2", "3", "4", "5", "6", "7", "8", "9">>
LowerAF == <<"a", "b", "c", "d", "e", "f">>
UpperAF == <<"A", "B", "C", "D", "E", "F">>

InSeq(seq, ch) == \E i \in 1..Len(seq) : seq[i] = ch
IndexOf(seq, ch) == CHOOSE i \in 1..Len(seq) : seq[i] = ch

\* A table of lower-case digits.
LowerHexTable == Digits \o LowerAF
\* const hex = "0123456789ABCDEF"
HexTable == Digits \o UpperAF

unhex(b) ==
    IF InSeq(Digits, b) THEN IndexOf(Digits, b) - 1
    ELSE IF InSeq(LowerAF, b) THEN IndexOf(LowerAF, b) + 9
    ELSE IF InSeq(UpperAF, b) THEN IndexOf(UpperAF, b) + 9
    ELSE 0

\* (unhex(h) << 4) | unhex(l), in a uint8
hexToUint8(h, l) == (unhex(h) * 16 + unhex(l)) % 256

parseHex(hex) ==
    IF Len(hex) # 7 \/ hex[1] # "#"
    THEN [r |-> 0, g |-> 0, b |-> 0, ok |-> FALSE]
    ELSE [r |-> hexToUint8(hex[2], hex[3]), g |-> hexToUint8(hex[4], hex[5]),
          b |-> hexToUint8(hex[6], hex[7]), ok |-> TRUE]

uint8ToHex(r, g, b) ==
    <<"#", HexTable[(r \div 16) + 1], HexTable[(r % 16) + 1],
           HexTable[(g \div 16) + 1], HexTable[(g % 16) + 1],
           HexTable[(b \div 16) + 1], HexTable[(b % 16) + 1]>>

\* One channel of ApplyGradient: brightnessFactor is 0.2 at intensity 0 and
\* 1.0 at intensity 1; heatFactor is 0 at intensity 0 and 1 at intensity 1.
GradientChannel(v, intensity) == IF intensity = 0 THEN v \div 5 ELSE 255

ApplyGradient(baseColor, intensity) ==
    LET p == parseHex(baseColor)
    IN  IF ~p.ok THEN baseColor
        ELSE uint8ToHex(GradientChannel(p.r, intensity),
                        GradientChannel(p.g, intensity),
                        GradientChannel(p.b, intensity))

\* uint8(float64(v1)*(1-ratio) + float64(v2)*ratio), the ratio in halves
BlendChannel(v1, v2, halves) == (v1 * (2 - halves) + v2 * halves) \div 2

\* PerformanceCache.BlendColors
BlendColorsHex(c1, c2, halves) ==
    LET p1 == parseHex(c1)
        p2 == parseHex(c2)
    IN  IF ~p1.ok THEN c2
        ELSE IF ~p2.ok THEN c1
        ELSE uint8ToHex(BlendChannel(p1.r, p2.r, halves),
                        BlendChannel(p1.g, p2.g, halves),
                        BlendChannel(p1.b, p2.b, halves))

\* The colour strings tried: seven bytes with and without the leading '#',
\* digits of both cases and bytes that are no hex digits; shorter strings.
ColourBytes ==
    {<<"0", "0">>, <<"f", "f">>, <<"F", "F">>, <<"7", "a">>, <<"9", "C">>, <<"G", "0">>}
ColourStrings ==
    {<<c>> \o r \o g \o b : c \in {"#", "F"}, r \in ColourBytes,
                            g \in ColourBytes, b \in ColourBytes}
        \cup {<<>>, <<"#", "F", "F">>}
White == <<"#", "F", "F", "F", "F", "F", "F">>

ColourCalls ==
    [fn : {"parseFormat"}, c1 : ColourStrings, c2 : {<<>>}, x : {0}]
        \cup [fn : {"ApplyGradient"}, c1 : ColourStrings, c2 : {<<>>}, x : {0, 1}]
        \cup [fn : {"BlendColors"}, c1 : ColourStrings, c2 : {White, <<>>}, x : {0, 1, 2}]

\* r, g, b, ok := parseHex(s); if ok, uint8ToHex(r, g, b)
CallParseFormat ==
    /\ fnPc = "call" /\ fnIn.fn = "parseFormat"
    /\ LET p == parseHex(fnIn.c1)
       IN  fnOut' = [fn |-> "parseFormat", ok |-> p.ok,
                     value |-> IF p.ok THEN uint8ToHex(p.r, p.g, p.b) ELSE <<>>]
    /\ fnPc' = "done"
    /\ UNCHANGED <<fnIn, fnRest>>

CallApplyGradient ==
    /\ fnPc = "call" /\ fnIn.fn = "ApplyGradient"
    /\ fnOut' = [fn |-> "ApplyGradient", ok |-> TRUE,
                 value |-> ApplyGradient(fnIn.c1, fnIn.x)]
    /\ fnPc' = "done"
    /\ UNCHANGED <<fnIn, fnRest>>

CallBlendColors ==
    /\ fnPc = "call" /\ fnIn.fn = "BlendColors"
    /\ fnOut' = [fn |-> "BlendColors", ok |-> TRUE,
                 value |-> BlendColorsHex(fnIn.c1, fnIn.c2, fnIn.x)]
    /\ fnPc' = "done"
    /\ UNCHANGED <<fnIn, fnRest>>

(***************************************************************************)
(* gridToStringHalfBlock on grids as a frame may leave them: every cell    *)
(* untouched, written dim (above 0.04, below 0.05), or lit.                *)
(***************************************************************************)
\* width and height of the frames built.
FrameSizes == {<<1, 1>>, <<3, 1>>, <<1, 2>>, <<2, 2>>}

\* An intensity just below 0.05: written, since it is above 0.04.
DimIntensity == EmptyThreshold - 1

\* ApplyGradient truncates every channel to a uint8, so all the intensities
\* of an interval around 0.05 get one colour string (#FF00CC of the retro
\* bands 2 and 8 gives #4C003C from 0.04985 to 0.0509).
DimColor == GradientColor(3, EmptyThreshold)

DrawnCells ==
    {[i |-> 0, c |-> NoColor],
     [i |-> DimIntensity, c |-> DimColor],
     [i |-> EmptyThreshold, c |-> DimColor],
     [i |-> MaxIntensity, c |-> GradientColor(2, MaxIntensity)]}

FrameCalls ==
    UNION {[fn : {"gridToStringHalfBlock"}, width : {sz[1]}, height : {sz[2]},
            cells : [0..(sz[2] * 2 - 1) -> [0..(sz[1] - 1) -> DrawnCells]]]
           : sz \in FrameSizes}

CallGridToString ==
    /\ fnPc = "call" /\ fnIn.fn = "gridToStringHalfBlock"
    /\ LET cg == [y \in DOMAIN fnIn.cells |->
                    [x \in DOMAIN fnIn.cells[y] |-> fnIn.cells[y][x].c]]
           ig == [y \in DOMAIN fnIn.cells |->
                    [x \in DOMAIN fnIn.cells[y] |-> fnIn.cells[y][x].i]]
       IN  fnOut' = [fn |-> "gridToStringHalfBlock",
                     value |-> gridToStringHalfBlock(cg, ig, fnIn.width, fnIn.height)]
    /\ fnPc' = "done"
    /\ UNCHANGED <<fnIn, fnRest>>

(***************************************************************************)
(* One contribution to one cell, in both renderers: the main pixel and the *)
(* diffusion aura of drawPixelWithDiffusion, and the cell update of        *)
(* renderVerticalBeamParallel.  Intensities in units of 1/2000; a colour   *)
(* is the term of the gradient and blend calls that made it.               *)
(***************************************************************************)
\* 0.15, 0.1 and 0.08 of drawPixelWithDiffusion.
MainThreshold == 300
VDiffThreshold == 200
HDiffThreshold == 160

\* applyGradient(color, intensity) and blendColors(c1, c2, ratio) of the
\* strand renderer, as terms; the ratio in percent.
applyGradient(t, intensity) == << <<t, intensity, 0>> >>
blendColors(c1, t, intensity, ratio) == Append(c1, <<t, intensity, ratio>>)

\* The mean of the two intensities.
MeanIntensity(cur, intensity) == (cur + intensity) \div 2
\* math.Max(currentIntensity, intensity)
BlendedIntensity(cur, intensity) == Max(cur, intensity)

\* The main pixel.
drawMainPixel(cur, old, t, intensity) ==
    IF intensity > cur
    THEN [intensity |-> intensity, color |-> applyGradient(t, intensity)]
    ELSE IF cur > MainThreshold /\ intensity > MainThreshold
    THEN [intensity |-> BlendedIntensity(cur, intensity),
          color |-> blendColors(old, t, intensity, 50)]
    ELSE [intensity |-> cur, color |-> old]

\* A cell of the vertical aura, diffusionIntensity being the contribution.
drawVerticalAura(cur, old, t, intensity) ==
    IF intensity > cur
    THEN [intensity |-> intensity, color |-> applyGradient(t, intensity)]
    ELSE IF cur > VDiffThreshold /\ intensity > VDiffThreshold
    THEN [intensity |-> cur, color |-> blendColors(old, t, intensity, 30)]
    ELSE [intensity |-> cur, color |-> old]

\* A cell of the horizontal aura.
drawHorizontalAura(cur, old, t, intensity) ==
    IF intensity > HDiffThreshold
    THEN IF intensity > cur
         THEN [intensity |-> intensity, color |-> applyGradient(t, intensity)]
         ELSE IF cur > HDiffThreshold /\ intensity > HDiffThreshold
         THEN [intensity |-> cur, color |-> blendColors(old, t, intensity, 40)]
         ELSE [intensity |-> cur, color |-> old]
    ELSE [intensity |-> cur, color |-> old]

\* Stored and contributed intensities: 0, around each threshold, up to the
\* 1.08 a beam can contribute.
CellValues == {0, 50, 80, 100, 160, 200, 300, 400, 1000, 1900, 2000, 2160}

\* The colour a cell holds before the contribution: band 2 wrote it.
OldColor(cur) == IF cur = 0 THEN NoColor ELSE GradientColor(2, cur)

CellCalls ==
    [fn : {"mainPixel", "verticalAura", "horizontalAura", "beamCell"},
     cur : CellValues, intensity : CellValues]

\* drawPixelWithDiffusion: one cell written by band 1.
CallDrawPixel ==
    /\ fnPc = "call" /\ fnIn.fn \in {"mainPixel", "verticalAura", "horizontalAura"}
    /\ LET old == OldColor(fnIn.cur)
           r == IF fnIn.fn = "mainPixel"
                THEN drawMainPixel(fnIn.cur, old, 1, fnIn.intensity)
                ELSE IF fnIn.fn = "verticalAura"
                THEN drawVerticalAura(fnIn.cur, old, 1, fnIn.intensity)
                ELSE drawHorizontalAura(fnIn.cur, old, 1, fnIn.intensity)
       IN  fnOut' = [fn |-> fnIn.fn, intensity |-> r.intensity, color |-> r.color]
    /\ fnPc' = "done"
    /\ UNCHANGED <<fnIn, fnRest>>

\* renderVerticalBeamParallel: one cell written by band 1 under the lock.
CallBeamCell ==
    /\ fnPc = "call" /\ fnIn.fn = "beamCell"
    /\ fnOut' = [fn |-> "beamCell",
                 intensity |-> NewIntensity(fnIn.cur, fnIn.intensity),
                 color |-> NewColor(fnIn.cur, OldColor(fnIn.cur), 1, fnIn.intensity)]
    /\ fnPc' = "done"
    /\ UNCHANGED <<fnIn, fnRest>>

(***************************************************************************)
(* GenerateFBM.  Noise values are in units of 1/1000, the persistence in   *)
(* halves and the amplitude in quarters, so that three octaves are exact.  *)
(* Eval2 is a function of its arguments: for one x and y, octave i always  *)
(* sees the same noise value.                                              *)
(***************************************************************************)
NoiseValues == {-1000, 0, 500, 1000}
OctaveRange == -1..3
Persistences == {1, 2}

FBMCalls ==
    [fn : {"GenerateFBM"}, octaves : OctaveRange, persistence : Persistences,
     noise : [0..2 -> NoiseValues]]

\* total / maxValue in float64: 0/0 is NaN, x/0 an infinity.
FloatDiv(total, maxValue) ==
    IF maxValue # 0 THEN Fin(total \div maxValue)
    ELSE IF total = 0 THEN NaN
    ELSE IF total > 0 THEN PosInf ELSE NegInf

\* for i := 0; i < octaves; i++ { total += ...; maxValue += amplitude; ... }
RECURSIVE FBMLoop(_, _, _, _, _, _, _)
FBMLoop(noise, octaves, persistence, i, total, maxValue, amplitude) ==
    IF i >= octaves THEN [total |-> total, maxValue |-> maxValue]
    ELSE FBMLoop(noise, octaves, persistence, i + 1, total + noise[i] * amplitude,
                 maxValue + amplitude, (amplitude * persistence) \div 2)

GenerateFBM(noise, octaves, persistence) ==
    LET r == FBMLoop(noise, octaves, persistence, 0, 0, 0, 4)
    IN  [value |-> FloatDiv(r.total, r.maxValue), maxValue |-> r.maxValue]

CallGenerateFBM ==
    /\ fnPc = "call" /\ fnIn.fn = "GenerateFBM"
    /\ LET r == GenerateFBM(fnIn.noise, fnIn.octaves, fnIn.persistence)
       IN  fnOut' = [fn |-> "GenerateFBM", value |-> r.value, maxValue |-> r.maxValue]
    /\ fnPc' = "done"
    /\ UNCHANGED <<fnIn, fnRest>>

\* No helper call in progress.
FnIdle == fnPc = "idle" /\ fnIn = NoCall /\ fnOut = NoCall

\* Everything outside the pipeline, the analyzer and the renderer at rest.
CacheIdle == StyleIdle /\ PoolIdle

ExtIdle == FnIdle /\ SmoothIdle /\ CacheIdle

(***************************************************************************)
(* The specifications.  Spec runs the pipeline with the analyzer and the   *)
(* renderer at rest; SpecProc runs one ProcessBuffer call; SpecBeam runs   *)
(* one RenderPlasmaBeams call.                                             *)
(***************************************************************************)
\* The pipeline when p.Run() has started the program: Init's commands (tickCmd,
\* waitForAudio) are running and the first View has been written.
PipeInit ==
    /\ capPc = "read" /\ capBuf = 0 /\ produced = 0 /\ captureDone = FALSE
    /\ audioChan = <<>> /\ audioClosed = FALSE
    /\ anPc = "recv" /\ anMsg = 0
    /\ tuiChan = <<>> /\ tuiClosed = 0 /\ quitAudio = FALSE
    /\ uiPc = "running" /\ waitOut = 1 /\ tickOut = 1 /\ inbox = EmptyBag
    /\ m = [width |-> 0, height |-> 0, ready |-> FALSE, bands |-> 0,
            metadata |-> DefaultMetadata, colorScheme |-> "original"]
    /\ view = "placeholder"
    /\ mainPc = "select" /\ drainCount = 0

Init == PipeInit /\ ProcIdle /\ BeamIdle /\ ExtIdle

Next ==
    \/ CaptureRead \/ CaptureSend \/ CaptureReadError \/ CaptureStop
    \/ AnalysisRecv \/ AnalysisRecvClosed \/ AnalysisRecvQuit
    \/ AnalysisSend \/ AnalysisSendQuit \/ AnalysisRecovered
    \/ WaitForAudioRecv \/ TickFire \/ UpdateTick
    \/ (\E id \in 1..MaxBlocks : UpdateAudio(id))
    \/ UpdateClosed \/ EventLoopQuit \/ UpdateKeyQuit \/ UpdateKeySpace
    \/ (\E s \in WindowSizes : UpdateWindowSize(s[1], s[2]))
    \/ MainSignal \/ MainDone \/ MainCloseQuit \/ MainWait
    \/ MainDrain \/ MainDrainEnd \/ MainStopAudio \/ MainExit

Spec == Init /\ [][Next]_vars

InitProc ==
    /\ PipeInit /\ BeamIdle /\ ExtIdle
    /\ pbPc = "start" /\ block \in BlockLens
    /\ fftTask = [c \in Channels |-> "none"] /\ realOwner = "none"
    /\ coeffs = [c \in Channels |-> "none"]
    /\ bandEnergies = <<>> /\ totalEnergy = 0 /\ result = NoResult

NextProc ==
    \/ PBEmpty \/ PBSplit
    \/ (\E c \in Channels : FFTCopy(c))
    \/ (\E c \in Channels : FFTPanic(c))
    \/ (\E c \in Channels : FFTTransform(c))
    \/ (\E c \in Channels : FFTExtract(c))
    \/ PBJoinLeft \/ PBJoinRight
    \/ (\E e \in RawEnergies : PBBand(e))
    \/ PBPost \/ PBReturn

SpecProc == InitProc /\ [][NextProc]_vars

InitBeam ==
    /\ PipeInit /\ ProcIdle /\ ExtIdle
    /\ rPc = "start" /\ BeamRest
    /\ smoothing \in [Beams -> Energies]
    /\ rBands = [t \in Beams |-> MaxIntensity]
    /\ chaosSmooth \in Energies /\ rChaos = MaxIntensity
    /\ \E v \in StaleIntensities :
          intensityGrid = [y \in Rows |-> [x \in Cols |-> v]]

NextBeam ==
    \/ RStart \/ RSpawn
    \/ (\E t \in Beams : BeamSkip(t))
    \/ (\E t \in Beams : \E f \in Factors : BeamLock(t, f))
    \/ (\E t \in Beams : BeamWriteUnlock(t))
    \/ (\E t \in Beams : BeamDone(t))
    \/ RStringify \/ RReturn

SpecBeam == InitBeam /\ [][NextBeam]_vars

\* One frame whose geometry is fixed when it starts: falloff * flicker of a
\* band at a cell depends on the band, the cell, the energy and the noise
\* time only, none of which changes while the band tasks run.  0 stands for
\* a cell the band does not reach.
Falloffs ==
    {[k \in 0..(NumCells - 1) |-> 108],
     [k \in 0..(NumCells - 1) |-> IF k = 0 THEN 4 ELSE 108],
     [k \in 0..(NumCells - 1) |-> IF k = 0 THEN 0 ELSE 4]}

LitCalls ==
    {[fn |-> "renderVerticalBeamParallel", factor |-> p] : p \in [Beams -> Falloffs]}

\* if x < 0 || x >= width { continue }; if falloff < 0.05 { continue }
LitSkip(t) ==
    /\ bCell[t] < NumCells
    /\ fnIn.factor[t][bCell[t]] = 0
    /\ BeamSkip(t)

\* intensity := energy * falloff; intensity *= flicker; mu.Lock()
LitLock(t) ==
    /\ bCell[t] < NumCells
    /\ fnIn.factor[t][bCell[t]] # 0
    /\ BeamLock(t, fnIn.factor[t][bCell[t]])

InitLit ==
    /\ PipeInit /\ ProcIdle /\ SmoothIdle /\ CacheIdle
    /\ fnPc = "idle" /\ fnIn \in LitCalls /\ fnOut = NoCall
    /\ rPc = "start" /\ BeamRest
    /\ smoothing \in [Beams -> Energies]
    /\ rBands = [t \in Beams |-> MaxIntensity]
    /\ chaosSmooth = 0 /\ rChaos = MaxIntensity
    /\ \E v \in StaleIntensities :
          intensityGrid = [y \in Rows |-> [x \in Cols |-> v]]

NextLit ==
    \/ RStart \/ RSpawn
    \/ (\E t \in Beams : LitSkip(t))
    \/ (\E t \in Beams : LitLock(t))
    \/ (\E t \in Beams : BeamWriteUnlock(t))
    \/ (\E t \in Beams : BeamDone(t))
    \/ RStringify \/ RReturn

SpecLit == InitLit /\ [][NextLit]_vars

InitChaos ==
    /\ PipeInit /\ ProcIdle /\ BeamIdle
    /\ fnPc = "call" /\ fnIn \in ChaosCalls /\ fnOut = NoCall
    /\ SmoothIdle /\ CacheIdle

NextChaos == CallCalculateChaos

SpecChaos == InitChaos /\ [][NextChaos]_vars

InitSmooth == PipeInit /\ ProcIdle /\ BeamIdle /\ ExtIdle

NextSmooth ==
    \/ (\E c \in SampleKinds : RenderTick(c))
    \/ (\E c \in SampleKinds : StrandTick(c))

SpecSmooth == InitSmooth /\ [][NextSmooth]_vars

InitStyle == PipeInit /\ ProcIdle /\ BeamIdle /\ ExtIdle

NextStyle ==
    \/ (\E c \in Callers, call \in StyleCalls : StyleCall(c, call))
    \/ (\E c \in Callers : StyleRLock(c))
    \/ (\E c \in Callers : StyleLookup(c))
    \/ (\E c \in Callers : StyleHit(c))
    \/ (\E c \in Callers : StyleLock(c))
    \/ (\E c \in Callers : StyleRecheckHit(c))
    \/ (\E c \in Callers : StyleConstruct(c))
    \/ (\E c \in Callers : StyleInsert(c))

SpecStyle == InitStyle /\ [][NextStyle]_vars

InitPool == PipeInit /\ ProcIdle /\ BeamIdle /\ ExtIdle

NextPool ==
    \/ (\E height, width \in Sizes : GetGrids(height, width))
    \/ DrawFrame
    \/ ReturnGrids
    \/ (\E k \in PoolNames : PoolDrop(k))

SpecPool == InitPool /\ [][NextPool]_vars

InitColour ==
    /\ PipeInit /\ ProcIdle /\ BeamIdle /\ SmoothIdle /\ CacheIdle
    /\ fnPc = "call" /\ fnIn \in ColourCalls /\ fnOut = NoCall

NextColour == CallParseFormat \/ CallApplyGradient \/ CallBlendColors

SpecColour == InitColour /\ [][NextColour]_vars

InitFrame ==
    /\ PipeInit /\ ProcIdle /\ BeamIdle /\ SmoothIdle /\ CacheIdle
    /\ fnPc = "call" /\ fnIn \in FrameCalls /\ fnOut = NoCall

NextFrame == CallGridToString

SpecFrame == InitFrame /\ [][NextFrame]_vars

InitCell ==
    /\ PipeInit /\ ProcIdle /\ BeamIdle /\ SmoothIdle /\ CacheIdle
    /\ fnPc = "call" /\ fnIn \in CellCalls /\ fnOut = NoCall

NextCell == CallDrawPixel \/ CallBeamCell

SpecCell == InitCell /\ [][NextCell]_vars

InitFBM ==
    /\ PipeInit /\ ProcIdle /\ BeamIdle /\ SmoothIdle /\ CacheIdle
    /\ fnPc = "call" /\ fnIn \in FBMCalls /\ fnOut = NoCall

NextFBM == CallGenerateFBM

SpecFBM == InitFBM /\ [][NextFBM]_vars

(***************************************************************************)
(* Scheduling.  A goroutine that can run eventually runs; a select with    *)
(* several ready cases picks one at random, so a case that is ready again  *)
(* and again is eventually taken.  Keys, signals, window sizes, capture    *)
(* reads and read errors come from outside and carry no fairness.          *)
(***************************************************************************)
AnalysisStep ==
    \/ AnalysisRecv \/ AnalysisRecvClosed \/ AnalysisRecvQuit
    \/ AnalysisSend \/ AnalysisSendQuit \/ AnalysisRecovered

MainStep ==
    \/ MainDone \/ MainCloseQuit \/ MainWait
    \/ MainDrain \/ MainDrainEnd \/ MainStopAudio \/ MainExit

\* The waitForAudio goroutine, the tick timer and the event loop, which takes
\* every message a command is waiting to hand over.
UIFairness ==
    /\ WF_vars(WaitForAudioRecv)
    /\ WF_vars(TickFire) /\ WF_vars(UpdateTick)
    /\ WF_vars(\E id \in 1..MaxBlocks : UpdateAudio(id))
    /\ WF_vars(UpdateClosed)
    /\ WF_vars(EventLoopQuit)

FairSpec ==
    /\ Spec
    /\ WF_vars(AnalysisStep)
    /\ SF_vars(AnalysisRecvQuit) /\ SF_vars(AnalysisSendQuit)
    /\ UIFairness
    /\ WF_vars(MainStep)

(***************************************************************************)
(* Claims about the pipeline.                                              *)
(***************************************************************************)
\* C1: a producer never blocks on a full bounded queue: whenever a producing
\* loop stands at its send step (the capture loop before audioChan, the
\* analysis loop before a full tuiChan), that step can complete at once,
\* without the consumer taking a unit first.
C1_ProducerNeverBlocks ==
    /\ (Alive /\ capPc = "send") => ENABLED CaptureSend
    /\ (Alive /\ anPc = "send" /\ Len(tuiChan) = TuiChanCap)
           => ENABLED AnalysisSendStep

\* The capture loop's send step: it leaves "send" for "read".
CaptureOverflowStep ==
    capPc = "send" /\ capPc' = "read" /\ Len(audioChan) = AudioChanCap

\* C2: on overflow the newest unit is kept and the backlog
\* evicted, so after an overflow the next unit the consumer receives (the head
\* of the queue) is the most recently produced one.
C2_OverflowKeepsNewest ==
    [][CaptureOverflowStep => Head(audioChan') = capBuf]_vars

\* C3: once the input channel is closed or quitAudio is closed, the analysis
\* loop eventually terminates, whether it waits for input or waits to send
\* into a full tuiChan, and tuiChan is closed as it exits.
C3_AnalysisTerminates ==
    (audioClosed \/ quitAudio) ~> (anPc = "exited" /\ tuiClosed > 0)

\* The loop has exited on the stop signal while tuiChan was full and nobody
\* had taken a unit from it.
C3_Witness ==
    /\ anPc = "exited" /\ tuiClosed > 0 /\ quitAudio
    /\ Len(tuiChan) = TuiChanCap /\ mainPc = "wgwait"

\* The closure of tuiChan has been observed by waitForAudio and its message
\* has been handled: no receive is outstanding, nothing from it is in flight.
ClosureHandled ==
    /\ tuiClosed > 0 /\ waitOut = 0
    /\ \A x \in BagToSet(inbox) : x.kind = "tick"

\* C4: when tuiChan is closed the UI loop terminates: once the closure that
\* waitForAudio observed has been handled, the program has quit.
C4_ClosureQuitsUI == ClosureHandled => uiPc # "running"

\* C9: rendering never crashes: whatever window size the host reports, View
\* returns a frame (or the placeholder) without a run-time failure.
C9_ViewNeverPanics == view # "panic" /\ uiPc # "panicked"


(***************************************************************************)
(* C5.  The band tasks' read-modify-write of a shared cell is mutually     *)
(* exclusive: no two tasks are inside a cell update at the same time, and  *)
(* the intensity a task read is still the stored one when it writes, so no *)
(* contribution is lost to an interleaved update.                          *)
(***************************************************************************)
C5_CellUpdateExclusive ==
    /\ \A t1, t2 \in Beams :
          t1 # t2 => ~(bPc[t1] = "locked" /\ bPc[t2] = "locked")
    /\ \A t \in Beams :
          bPc[t] = "locked" =>
            /\ gridMu = t
            /\ bLocal[t].currentIntensity =
                 intensityGrid[CellY(bCell[t])][CellX(bCell[t])]

\* One task is inside the update of a cell it will write while another task
\* has reached the same cell and waits for the lock.
C5_Witness ==
    \E t1, t2 \in Beams :
        /\ t1 # t2
        /\ bPc[t1] = "locked" /\ bLocal[t1].intensity > WriteThreshold
        /\ bPc[t2] = "run" /\ bCell[t2] = bCell[t1]
        /\ ~ENABLED BeamLock(t2, 108)

(***************************************************************************)
(* C6.  The grid is read for stringification only after all band tasks     *)
(* have finished, the grids go back to the pool only after the frame has   *)
(* been built, and no task writes a grid after it has been read: the frame *)
(* stays the string of the grids.                                          *)
(***************************************************************************)
C6_ReadAfterJoin ==
    /\ frame # NoFrame =>
          /\ \A t \in Beams : bPc[t] = "done"
          /\ frame = gridToStringHalfBlock(colorGrid, intensityGrid,
                                          RenderSize.width, RenderSize.height)
    /\ (pooled /\ rPc \notin {"idle", "start"}) => (rPc = "done" /\ frame # NoFrame)

\* The call has returned a frame with a cell that two band tasks blended.
C6_Witness ==
    /\ rPc = "done" /\ pooled
    /\ \E y \in Rows, x \in Cols : Len(colorGrid[y][x]) >= 2
    /\ \E j \in 1..Len(frame) : frame[j].kind = "run"

(***************************************************************************)
(* C7.  The left and right transforms share no mutable state: while a task *)
(* is between filling the scratch array and reading the transform out of   *)
(* it, the array holds that task's data.                                   *)
(***************************************************************************)
C7_TransformsShareNothing ==
    \A c \in Channels :
        fftTask[c] \in {"copied", "transformed"} => realOwner = c

(***************************************************************************)
(* C8.  ProcessBuffer never fails: the process does not crash, and for an  *)
(* empty block or a block whose channel length differs from the FFT length *)
(* the call returns the all-zero message.                                  *)
(***************************************************************************)
C8_ProcessBufferNeverFails ==
    /\ pbPc # "crashed"
    /\ (pbPc = "done" /\ (block = 0 \/ ChanLen(block) # FFTLen)) => result = ZeroMessage

(***************************************************************************)
(* C10.  Every entry of the band vector ProcessBuffer returns lies in      *)
(* [0, 1].                                                                 *)
(***************************************************************************)
C10_BandsInUnitRange ==
    pbPc = "done" =>
        \A i \in 1..Len(result.Bands) :
            result.Bands[i] >= 0 /\ result.Bands[i] <= ClampMax

\* A returned vector with a guarded entry, a lifted entry and an entry the
\* clamp cut down to 1.
C10_Witness ==
    /\ pbPc = "done" /\ Len(result.Bands) = NumBands
    /\ totalEnergy > NumBands * ClampMax
    /\ \E i, j, k \in 1..NumBands :
          /\ result.Bands[i] = 0
          /\ result.Bands[j] = ClampMax
          /\ result.Bands[k] > LiftBelow /\ result.Bands[k] < 3 * LiftBelow


(***************************************************************************)
(* C11.  calculateChaos returns a value in [0, 1] for every vector of     *)
(* non-negative finite band energies, and exactly 0 whenever the total    *)
(* energy is below epsilon.                                                *)
(***************************************************************************)
C11_ChaosInUnitRange ==
    (fnPc = "done" /\ fnOut.fn = "calculateChaos") =>
        /\ fnOut.value >= 0 /\ fnOut.value <= ClampMax
        /\ fnIn.total < ChaosEpsilon => fnOut.value = 0

\* A call whose bounds cut the value down to 1, with the total at or above
\* epsilon.
C11_Witness ==
    /\ fnPc = "done" /\ fnOut.fn = "calculateChaos"
    /\ fnIn.total >= ChaosEpsilon /\ fnIn.total = SumSeq(fnIn.energies)
    /\ \E i \in 1..NumBands : fnIn.energies[i] = fnIn.total
    /\ fnOut.value = ClampMax


(***************************************************************************)
(* C12.  After every render call each smoothed band value and the smoothed *)
(* chaos lies between its previous value and the newest sample, and, with  *)
(* the state starting at 0 and all samples in [0, 1], stays in [0, 1].     *)
(***************************************************************************)
Between(x, a, b) == (a <= x /\ x <= b) \/ (b <= x /\ x <= a)

C12_SmoothingConvex ==
    [][ticks' = ticks + 1 =>
         /\ \A t \in Beams :
               /\ Between(smoothing'[t], smoothing[t], rBands'[t])
                     \/ smoothing'[t] = smoothing[t]
               /\ Between(sr'.smoothedEnergies[t], sr.smoothedEnergies[t], rBands'[t])
                     \/ sr'.smoothedEnergies[t] = sr.smoothedEnergies[t]
               /\ smoothing'[t] >= 0 /\ smoothing'[t] <= MaxIntensity
               /\ sr'.smoothedEnergies[t] >= 0
               /\ sr'.smoothedEnergies[t] <= MaxIntensity
         /\ Between(chaosSmooth', chaosSmooth, rChaos')
               \/ chaosSmooth' = chaosSmooth
         /\ Between(sr'.chaosSmooth, sr.chaosSmooth, rChaos')
               \/ sr'.chaosSmooth = sr.chaosSmooth
         /\ chaosSmooth' >= 0 /\ chaosSmooth' <= MaxIntensity
         /\ sr'.chaosSmooth >= 0 /\ sr'.chaosSmooth <= MaxIntensity
      ]_vars

\* Both renderers have been driven up and have come down again: the smoothed
\* values lie strictly between 0 and 1 after a silent sample.
C12_Witness ==
    /\ ticks = MaxTicks /\ rChaos = 0
    /\ \A t \in Beams : rBands[t] = 0 /\ smoothing[t] > 0 /\ smoothing[t] < MaxIntensity
    /\ chaosSmooth > 0
    /\ sr.chaosSmooth > 0 /\ sr.smoothedEnergies[1] > 0


(***************************************************************************)
(* C13.  Whatever the interleaving of concurrent GetStyle and GetStyleFGBG *)
(* calls with the same key, the style of that key is constructed and       *)
(* inserted exactly once: never twice, and once when the key is cached.    *)
(* Lookups may overlap; at most one goroutine is between Lock and Unlock,  *)
(* and no lookup overlaps it.                                              *)
(***************************************************************************)
Writers == {c \in Callers : sPc[c] \in {"locked", "insert"}}
Readers == {c \in Callers : sPc[c] = "lookup"}

C13_StyleConstructedOnce ==
    /\ \A k \in StyleKeys :
         /\ constructed[k] <= 1
         /\ Cached(k) => constructed[k] = 1
    /\ Cardinality(Writers) <= 1
    /\ Writers # {} => Readers = {}

\* Two goroutines missed the same key in overlapping lookups, one of them has
\* inserted the style and the other holds the write lock and finds it.
C13_Witness ==
    \E c, d \in Callers :
        /\ c # d /\ KeyOf(sCall[c]) = KeyOf(sCall[d])
        /\ sCall[c].fn # sCall[d].fn
        /\ sPc[c] = "locked" /\ ~sOk[c] /\ ~sOk[d] /\ sPc[d] = "idle"
        /\ Cached(KeyOf(sCall[c])) /\ constructed[KeyOf(sCall[c])] = 1


(***************************************************************************)
(* C14.  A GetGrids(h, w) that follows a GetGrids(h, w) of the same size   *)
(* and its ReturnGrids allocates nothing: it returns, and it returns the   *)
(* buffers of the first checkout without a call of make.                   *)
(***************************************************************************)
SameSizeAgain == req.ph # 0 /\ req.h = req.ph /\ req.w = req.pw

C14_SecondCheckoutReuses ==
    (gPc \in {"held", "panic"} /\ SameSizeAgain) => (gPc = "held" /\ ~allocated)

(***************************************************************************)
(* C15.  The pooled buffers never shrink: a GetGrids whose height and      *)
(* width are no larger than those of a checkout served and returned        *)
(* earlier does not allocate.  The pools are taken at their best here: the *)
(* statement is about the runs in which no pool has lost its item.         *)
(***************************************************************************)
C15_NeverShrinks ==
    (gPc = "held" /\ ~dropped /\ req.h <= served[1] /\ req.w <= served[2])
        => ~allocated

(***************************************************************************)
(* C16.  When GetGrids(h, w) has returned, every cell of the h x w region  *)
(* of the three grids is blank, whatever was drawn into the pooled buffers *)
(* before.                                                                 *)
(***************************************************************************)
C16_CheckoutIsBlank ==
    gPc = "held" =>
        \A k \in PoolNames :
            /\ Len(held[k]) = req.h
            /\ \A y \in 1..req.h :
                 /\ Len(held[k][y]) >= req.w
                 /\ \A x \in 1..req.w : held[k][y][x] = "blank"

\* A buffer drawn by an earlier frame is handed out again for a narrower
\* request: what was drawn is still there beyond the requested width.
C16_Witness ==
    /\ gPc = "held" /\ ~allocated /\ req.w = 1
    /\ \A k \in PoolNames : Len(held[k][1]) > 1 /\ held[k][1][2] = "drawn"


(***************************************************************************)
(* C17.  For every well-formed #RRGGBB string, parseHex followed by        *)
(* uint8ToHex returns exactly the input string.                            *)
(***************************************************************************)
IsHexDigit(ch) == InSeq(Digits, ch) \/ InSeq(LowerAF, ch) \/ InSeq(UpperAF, ch)

\* '#' followed by exactly six hexadecimal digits.
WellFormed(c) == Len(c) = 7 /\ c[1] = "#" /\ \A i \in 2..7 : IsHexDigit(c[i])

C17_RoundTripExact ==
    (fnPc = "done" /\ fnOut.fn = "parseFormat" /\ WellFormed(fnIn.c1))
        => (fnOut.ok /\ fnOut.value = fnIn.c1)

\* strings.ToUpper of one byte.
ToUpper(ch) == IF InSeq(LowerAF, ch) THEN UpperAF[IndexOf(LowerAF, ch)] ELSE ch

(***************************************************************************)
(* C17, as the code has it.  For every well-formed #RRGGBB string,         *)
(* parseHex followed by uint8ToHex returns the input with its digits a-f   *)
(* in upper case: exactly the input when it has no lower-case digit.       *)
(***************************************************************************)
C17_RoundTripUpperCase ==
    (fnPc = "done" /\ fnOut.fn = "parseFormat" /\ WellFormed(fnIn.c1))
        => /\ fnOut.ok
           /\ fnOut.value = [i \in 1..7 |-> ToUpper(fnIn.c1[i])]

\* A well-formed string with digits of both cases has made the round trip.
C17_Witness ==
    /\ fnPc = "done" /\ fnOut.fn = "parseFormat" /\ WellFormed(fnIn.c1)
    /\ fnIn.c1[2] = "7" /\ fnIn.c1[3] = "a" /\ fnIn.c1[4] = "9" /\ fnIn.c1[5] = "C"
    /\ fnOut.value[3] = "A" /\ fnOut.value[5] = "C"

(***************************************************************************)
(* C18.  ApplyGradient and BlendColors return their input colour unchanged *)
(* for every malformed colour, that is every string that is not '#'        *)
(* followed by exactly six hexadecimal digits.  For BlendColors the input  *)
(* colour is the first one, the colour being blended over.                 *)
(***************************************************************************)
C18_MalformedUnchanged ==
    (/\ fnPc = "done" /\ fnOut.fn \in {"ApplyGradient", "BlendColors"}
     /\ ~WellFormed(fnIn.c1))
        => fnOut.value = fnIn.c1


(***************************************************************************)
(* C19.  The frame of gridToStringHalfBlock for width w >= 1 and height    *)
(* h >= 1 has exactly h rows joined by h - 1 newlines, no newline at its   *)
(* end, and every row holds exactly w cells, each a space or a half block. *)
(***************************************************************************)
NewlinesBefore(f, j) == Cardinality({i \in 1..(j - 1) : f[i].kind = "newline"})

\* The cells of row r of the string f, the rows counted from 1.
RowCells(f, r) ==
    SumSeq([j \in 1..Len(f) |->
              IF f[j].kind # "newline" /\ NewlinesBefore(f, j) = r - 1
              THEN f[j].len ELSE 0])

C19_FrameShape ==
    (fnPc = "done" /\ fnOut.fn = "gridToStringHalfBlock") =>
        LET f == fnOut.value
        IN  /\ NewlinesBefore(f, Len(f) + 1) = fnIn.height - 1
            /\ f[Len(f)].kind # "newline"
            /\ \A j \in 1..Len(f) :
                 f[j].kind \in {"space", "run", "newline"}
                    /\ (f[j].kind # "newline" => f[j].len >= 1)
            /\ \A r \in 1..fnIn.height : RowCells(f, r) = fnIn.width

\* A frame of two rows: a run of two cells, the newline, a space and a run.
C19_Witness ==
    /\ fnPc = "done" /\ fnOut.fn = "gridToStringHalfBlock"
    /\ fnIn.width = 2 /\ fnIn.height = 2
    /\ Len(fnOut.value) = 4
    /\ fnOut.value[1].kind = "run" /\ fnOut.value[1].len = 2
    /\ fnOut.value[2].kind = "newline"
    /\ fnOut.value[3].kind = "space" /\ fnOut.value[4].kind = "run"


(***************************************************************************)
(* C20.  No frame is rendered before the first window size is known:      *)
(* until a WindowSizeMsg has been received View returns the placeholder    *)
(* and never reaches RenderPlasmaBeams; once the model is ready, every     *)
(* View call runs one render tick and returns its frame, and the model is  *)
(* ready for the next one.                                                 *)
(***************************************************************************)
C20_ReadyRenders ==
    /\ ~m.ready => (view = "placeholder" /\ uiPc # "panicked")
    /\ m.ready => (view = "frame" /\ uiPc # "panicked")

(***************************************************************************)
(* C21.  In a RenderPlasmaBeams frame whose smoothed energies are in       *)
(* [0, 1], every cell's stored intensity is in [0, 1.0] after any sequence *)
(* of contributions, first writes and overlapping writes alike.            *)
(***************************************************************************)
C21_IntensityInUnitRange ==
    (\A t \in Beams : smoothing[t] >= 0 /\ smoothing[t] <= MaxIntensity) =>
        \A y \in Rows, x \in Cols :
            intensityGrid[y][x] >= 0 /\ intensityGrid[y][x] <= MaxIntensity

(***************************************************************************)
(* C22.  In both renderers a contribution replaces a cell's colour         *)
(* outright only when its intensity strictly exceeds the stored one; when  *)
(* the new and the stored intensity are both above the visibility          *)
(* threshold the colours are blended and the stored intensity becomes the  *)
(* maximum of the two (main pixel of the strand renderer) or their sum     *)
(* capped at 1.0 (beam renderer).                                          *)
(***************************************************************************)
CellDone(fn) == fnPc = "done" /\ fnOut.fn = fn
Replaced == fnOut.color = GradientColor(1, fnIn.intensity)
Blended == Len(fnOut.color) = Len(OldColor(fnIn.cur)) + 1
Untouched == fnOut.color = OldColor(fnIn.cur) /\ fnOut.intensity = fnIn.cur
BothAbove(th) == fnIn.cur > th /\ fnIn.intensity > th

C22_ReplaceOrBlend ==
    /\ (CellDone("mainPixel") \/ CellDone("beamCell")) =>
          (Replaced => fnIn.intensity > fnIn.cur)
    /\ (CellDone("mainPixel") /\ BothAbove(MainThreshold)) =>
          (Blended /\ fnOut.intensity = Max(fnIn.cur, fnIn.intensity))
    /\ (CellDone("beamCell") /\ BothAbove(WriteThreshold)) =>
          (Blended /\ fnOut.intensity = SumCapped(fnIn.cur, fnIn.intensity))

(***************************************************************************)
(* C22, as the code has it.  The main pixel of the strand renderer is      *)
(* replaced outright exactly when the new intensity strictly exceeds the   *)
(* stored one; otherwise, when both are above 0.15, the colours are        *)
(* blended and the stored intensity stays the maximum of the two.  A beam  *)
(* cell is replaced outright exactly when the new intensity is above 0.04  *)
(* and the stored one is not; when both are above 0.04 the colours are     *)
(* blended and the stored intensity becomes                                *)
(* max(stored, min(1.0, stored + new/2)).  Any other contribution leaves   *)
(* the cell as it is.                                                      *)
(***************************************************************************)
C22_ReplaceOrBlendHalf ==
    /\ (CellDone("mainPixel") \/ CellDone("beamCell")) =>
          (Replaced => fnIn.intensity > fnIn.cur)
    /\ CellDone("mainPixel") =>
          IF fnIn.intensity > fnIn.cur
          THEN Replaced /\ fnOut.intensity = fnIn.intensity
          ELSE IF BothAbove(MainThreshold)
          THEN Blended /\ fnOut.intensity = Max(fnIn.cur, fnIn.intensity)
          ELSE Untouched
    /\ CellDone("beamCell") =>
          IF fnIn.intensity > WriteThreshold /\ fnIn.cur <= WriteThreshold
          THEN Replaced /\ fnOut.intensity = fnIn.intensity
          ELSE IF BothAbove(WriteThreshold)
          THEN /\ Blended
               /\ fnOut.intensity =
                    Max(fnIn.cur, Min(MaxIntensity, fnIn.cur + fnIn.intensity \div 2))
          ELSE Untouched

\* A beam cell holding 0.2 has taken a contribution of 0.2: it is blended and
\* holds 0.3.
C22_Witness ==
    /\ CellDone("beamCell") /\ fnIn.cur = 400 /\ fnIn.intensity = 400
    /\ Blended /\ fnOut.intensity = 600

(***************************************************************************)
(* C28.  Within one frame a cell's stored intensity never decreases: in    *)
(* both renderers every contribution (main pixel, diffusion aura, beam     *)
(* cell, overlapping or not) leaves the stored intensity equal to or       *)
(* greater than it was.                                                    *)
(***************************************************************************)
C28_IntensityNeverDecreases ==
    (fnPc = "done" /\ fnOut.fn \in {"mainPixel", "verticalAura", "horizontalAura", "beamCell"})
        => fnOut.intensity >= fnIn.cur

\* A main pixel holding 0.5 has been blended with a contribution of 0.2 and
\* still holds 0.5.
C28_Witness ==
    /\ fnPc = "done" /\ fnOut.fn = "mainPixel"
    /\ fnIn.cur = 1000 /\ fnIn.intensity = 400
    /\ Len(fnOut.color) = 2 /\ fnOut.intensity = 1000

(***************************************************************************)
(* C23.  GenerateFBM uses max(1, requested) octaves: a call with           *)
(* octaves <= 0 returns what the call with octaves = 1 returns for the     *)
(* same arguments, and the weight sum that divides the total is never 0.   *)
(***************************************************************************)
C23_EffectiveOctaves ==
    (fnPc = "done" /\ fnOut.fn = "GenerateFBM") =>
        /\ fnOut.maxValue # 0
        /\ fnIn.octaves <= 0 =>
             fnOut.value = GenerateFBM(fnIn.noise, 1, fnIn.persistence).value

(***************************************************************************)
(* C24.  The total that ProcessBuffer passes to calculateChaos is the sum  *)
(* of the band vector it passes, so that the entries divided by the total  *)
(* add up to 1.                                                            *)
(***************************************************************************)
C24_TotalIsSumOfBands ==
    (pbPc \in {"chaos", "done"} /\ Len(bandEnergies) = NumBands)
        => totalEnergy = SumSeq(bandEnergies)

(***************************************************************************)
(* C25.  If band k has the strictly largest energy before the clamp and    *)
(* the near-silence lift, band k holds the maximum of the band vector      *)
(* after them.                                                             *)
(***************************************************************************)
C25_MaximumKeepsItsBand ==
    [][(pbPc = "post" /\ pbPc' = "chaos") =>
          \A k \in 1..NumBands :
              (\A j \in 1..NumBands : j # k => bandEnergies[k] > bandEnergies[j])
                  => \A j \in 1..NumBands : bandEnergies'[k] >= bandEnergies'[j]
      ]_vars

(***************************************************************************)
(* C26.  tuiChan is closed exactly once, only by the analysis goroutine as *)
(* it exits, and nothing is sent on it after it is closed, whatever the    *)
(* interleaving of the stop signal, the closure of audioChan and a         *)
(* recovered panic; the drain loop of the shutdown therefore ends.         *)
(***************************************************************************)
C26_ClosedOnceThenDrained ==
    /\ [](tuiClosed <= 1 /\ (tuiClosed = 1 <=> anPc = "exited"))
    /\ [][/\ tuiClosed' # tuiClosed => (anPc # "exited" /\ anPc' = "exited")
          /\ tuiClosed > 0 => Len(tuiChan') <= Len(tuiChan)]_vars
    /\ (mainPc = "drain") ~> (mainPc = "stopping" /\ tuiChan = <<>>)

\* The goroutine saw the stop signal and closed the channel with messages
\* still in it; the drain loop has taken them and has ended.
C26_Witness ==
    /\ mainPc = "stopping" /\ tuiClosed = 1 /\ anPc = "exited"
    /\ drainCount > 0 /\ tuiChan = <<>> /\ quitAudio

(***************************************************************************)
(* C27.  At any time at most one tick timer and at most one waitForAudio   *)
(* receive are outstanding in the UI loop (running, or with their message  *)
(* not yet handled), so the analysis results are applied to the model one  *)
(* at a time, in the order in which they were produced.                    *)
(***************************************************************************)
TicksOutstanding == tickOut + CopiesIn(Msg("tick", 0), inbox)

AudioOutstanding ==
    waitOut + CopiesIn(Msg("closed", 0), inbox)
            + SumSeq([id \in 1..MaxBlocks |-> CopiesIn(Msg("audio", id), inbox)])

C27_OneOutstandingInOrder ==
    /\ [](TicksOutstanding <= 1 /\ AudioOutstanding <= 1)
    /\ [][m'.bands # m.bands => m'.bands > m.bands]_vars

\* Two results have been applied and both commands are armed again.
C27_Witness ==
    /\ uiPc = "running" /\ m.bands >= 2
    /\ waitOut = 1 /\ tickOut = 1 /\ inbox = EmptyBag

(***************************************************************************)
(* C29.  In Strategy B the set of cells whose final stored intensity is    *)
(* above the visibility threshold 0.04 is the same for every order in      *)
(* which the writes of the band tasks interleave: when the tasks have been *)
(* joined, a cell is lit exactly when some band's contribution to it is    *)
(* above the threshold, which the frame's inputs alone decide.             *)
(***************************************************************************)
Contribution(t, k) == (smoothing[t] * fnIn.factor[t][k]) \div 100

Lit(k) == intensityGrid[CellY(k)][CellX(k)] > WriteThreshold

C29_LitSetFixed ==
    (rPc \in {"return", "done"}) =>
        \A k \in 0..(NumCells - 1) :
            Lit(k) <=> \E t \in Beams : Contribution(t, k) > WriteThreshold

\* A frame is finished in which one cell took a write above the threshold
\* and a contribution below it, and another cell holds a blend of two bands.
C29_Witness ==
    /\ rPc = "done"
    /\ \E k \in 0..(NumCells - 1) :
          /\ Lit(k)
          /\ \E t \in Beams : /\ Contribution(t, k) > 0
                              /\ Contribution(t, k) <= WriteThreshold
    /\ \E k \in 0..(NumCells - 1) :
          Lit(k) /\ Len(colorGrid[CellY(k)][CellX(k)]) >= 2

(***************************************************************************)
(* C30.  In the frame gridToStringHalfBlock builds, an output cell is a    *)
(* space if and only if both its sub-row intensities are below 0.05; such  *)
(* a cell is never part of a coloured half-block run.                      *)
(***************************************************************************)
\* The kind of every output cell of a frame, row after row.
RECURSIVE CellKinds(_)
CellKinds(f) ==
    IF f = <<>> THEN <<>>
    ELSE (IF Head(f).kind = "newline" THEN <<>>
          ELSE [j \in 1..Head(f).len |-> Head(f).kind])
         \o CellKinds(Tail(f))

BothBelow(r, x) ==
    /\ fnIn.cells[2 * r][x].i < EmptyThreshold
    /\ fnIn.cells[2 * r + 1][x].i < EmptyThreshold

C30_SpaceIffEmpty ==
    (fnPc = "done" /\ fnOut.fn = "gridToStringHalfBlock") =>
        \A r \in 0..(fnIn.height - 1) : \A x \in 0..(fnIn.width - 1) :
            (CellKinds(fnOut.value)[r * fnIn.width + x + 1] = "space")
                <=> BothBelow(r, x)

====
